---- MODULE Spec2Model ----
(***************************************************************************)
(* Model of the file synchronisation code of the cr command line tool:     *)
(*   cr/utils.py  is_in_path, paths_to_deploy                              *)
(*   cr/ssh.py    Server.connect, open_sftp, close, put, get (walk_remote) *)
(*   cr/cli.py    Upload.run, Download.run                                 *)
(*                                                                         *)
(* A path is a sequence of names relative to the root of the tree it lives *)
(* in (<<>> is the root itself); a name is a sequence of characters, so    *)
(* that str.startswith(".") is computed on the name.                       *)
(***************************************************************************)
EXTENDS Integers, Sequences, FiniteSets, TLC

VARIABLES
    cmd,        \* what is being run: "upload", "deploy", "download" (the
                \* commands), "put", "get" (direct calls on a Server),
                \* "session" (connect, open_sftp and close called
                \* directly), "walk" (paths_to_deploy called directly),
                \* "files" (the list of paths to copy of upload and deploy)
    pc,         \* position in the command
    err,        \* an exception is propagating (set before the finally: close)
    progress,   \* a progress sink was passed to put/get
    argpath,    \* upload: args.path (<<>> = a directory, <<n>> = a file in it)
    lfs,        \* local filesystem: path -> "dir" | "file" | "lnk"
    links,      \* where each symbolic link of lfs points, and at what
    git,        \* what running git gives: whether it is on the PATH, its
                \* exit code and the lines of its output
    deploy_exclude, \* the deploy_exclude paths of the configuration
    listing,    \* the order in which the operating system lists the
                \* entries of each local directory (where more than one
                \* walk reads it)
    rfs,        \* remote filesystem: path -> "dir" | "file" | "lnk" | "none" | "partial"
    e,          \* exclude list (local paths for the walk, relative paths for get)
    i,          \* include list of the walk
    stack,      \* os.walk: directories still to be visited, next first
    lp,         \* paths_to_deploy result so far / the list given to put
    returned,   \* history: the lists that calls of paths_to_deploy returned
    work,       \* walk_remote: listed items not yet looked at, next first
    ltp,        \* walk_remote result so far / the list get transfers
    idx,        \* index of the next item of the transfer loop
    client,     \* Server._client is set
    sftp,       \* Server._sftp is set
    ops,        \* history: primitive operations issued, in order
    events,     \* history: progress.print notices, in order
    tasks,      \* history: totals of the transfer tasks added to the sink
    advanced,   \* history: number of progress.update(t, advance=1) calls
    trace,      \* history: primitives, notices, tasks and advances of put
                \* and get in the order the code issues them
    conns,      \* history: what was done to connection objects (SSHClient
                \* handshakes, SFTP channels opened, objects closed)
    calls,      \* history: the calls made on a Server used directly, with
                \* what each returned
    polled,     \* history: what the API answered to each api_get_task of
                \* api_poll_task, in order
    api_task,   \* the status of the task dict that api_poll_task returned
                \* ("none": it has not returned)
    poll_exc,   \* the exception that api_poll_task raised ("none": none)
    ran,        \* main: how runcli ended ("none": it has not)
    exc,        \* main: the exception that is propagating ("none": none)
    updates,    \* main: history, the number of calls of check_update
    exit_code,  \* main: the exit status of the process (-1: it runs)
    ini,        \* config: what load_config has read, section -> (option ->
                \* value as written); the default section cr is always there
    environ,    \* config: os.environ, name -> value
    query,      \* config: the arguments k, w and f of the call
    value,      \* config: what the call returned ("unset": it has not)
    since,      \* api_poll_logs: the local since
    fetches,    \* api_poll_logs: history, the since passed to each
                \* api_get_logs and the lines it returned
    shown,      \* api_poll_logs: history, what progress.print got
    puts        \* put called again: history, the remote store before the
                \* first call and after each call that ended, with how it
                \* ended and the number of primitives issued until then

vars == <<cmd, pc, err, progress, argpath, lfs, links, git, deploy_exclude,
          listing, rfs, e, i,
          stack, lp, returned, work, ltp, idx, client, sftp, ops, events,
          tasks, advanced, trace, conns, calls, polled, api_task, poll_exc,
          ran, exc, updates, exit_code, ini, environ, query, value,
          since, fetches, shown, puts>>

\* groups for UNCHANGED
args == <<cmd, progress, argpath, i, links, listing, git, deploy_exclude>>
conn == <<client, sftp, conns, calls>>
walk == <<stack, lp, returned>>
scan == <<work, ltp>>
sink == <<events, tasks, advanced, trace>>
bars == <<events, tasks, advanced>>
api == <<polled, api_task, poll_exc>>
main == <<ran, exc, updates, exit_code>>
\* what the commands and the calls on a Server leave alone
cfg == <<ini, environ, query, value>>
logs == <<since, fetches, shown>>
solo == <<main, cfg, logs, puts>>

----------------------------------------------------------------------------
(* Bounds of the model *)

\* nodes of a generated tree below its root
MaxNodes == 2
\* members of an exclude or include list
MaxSet == 2
\* calls made on a Server that is used directly
MaxCalls == 5
\* calls of paths_to_deploy on one filesystem
MaxRuns == 2
\* calls of Server.put with one list on one server
MaxPuts == 2
\* fetches of api_poll_logs whose batch is one of several that let the
\* loop go on
MaxVaried == 2

----------------------------------------------------------------------------
(* Names and paths *)

NameA    == <<"a">>
NameB    == <<"b">>
NameC    == <<"c">>
NameDot  == <<".", "h">>
NameVenv == <<"v", "e", "n", "v">>
NameCache  == <<"c", "a", "c", "h", "e">>
NameStatic == <<"s", "t", "a", "t", "i", "c">>
NameWp     == <<"w", "p", "-", "c", "o", "n", "t", "e", "n", "t">>
NameMedia  == <<"m", "e", "d", "i", "a">>
NameATxt   == <<"a", ".", "t", "x", "t">>
NameBTxt   == <<"b", ".", "t", "x", "t">>
NameCCss   == <<"c", ".", "c", "s", "s">>
NameWww    == <<"w", "w", "w">>
NameKeep   == <<"k", "e", "e", "p", ".", "t", "x", "t">>
NameNodeModules == <<"n", "o", "d", "e", "_", "m", "o", "d", "u", "l", "e", "s">>
NameXJs    == <<"x", ".", "j", "s">>
NameHidden == <<".", "h", "i", "d", "d", "e", "n">>
NameYTxt   == <<"y", ".", "t", "x", "t">>

\* names the generated trees are built from
Names == {NameA, NameDot, NameVenv}

EXCLUDE_DIRNAMES ==
    { <<"_", "_", "p", "y", "c", "a", "c", "h", "e", "_", "_">>,
      <<"n", "o", "d", "e", "_", "m", "o", "d", "u", "l", "e", "s">>,
      <<"h", "t", "m", "l", "c", "o", "v">>,
      <<"v", "e", "n", "v">> }

StartsWithDot(name) == Len(name) > 0 /\ name[1] = "."

Root == <<>>
Parent(p) == SubSeq(p, 1, Len(p) - 1)
BaseName(p) == p[Len(p)]
\* pathlib's q.parents: every proper ancestor of q
Parents(q) == { SubSeq(q, 1, k) : k \in 0..(Len(q) - 1) }
IsPrefix(r, p) == Len(r) <= Len(p) /\ SubSeq(p, 1, Len(r)) = r
\* pathlib's p.relative_to(r), defined when r is p or an ancestor of p
RelativeTo(p, r) == SubSeq(p, Len(r) + 1, Len(p))
Join(s, p) == s \o p

SeqToSet(s) == { s[k] : k \in 1..Len(s) }
Perms(S) ==
    { s \in [1..Cardinality(S) -> S] :
        \A a, b \in 1..Cardinality(S) : a # b => s[a] # s[b] }
Children(f, d) == { c \in DOMAIN f : c # Root /\ Parent(c) = d }
SubsetsUpTo(S, n) == { x \in SUBSET S : Cardinality(x) <= n }

RECURSIVE TreesUpTo(_)
TreesUpTo(n) ==
    IF n = 0 THEN { {Root} }
    ELSE LET prev == TreesUpTo(n - 1)
         IN  prev \cup
             UNION { { t \cup {Append(p, nm)} : p \in t, nm \in Names } : t \in prev }

\* every node that has a child is a directory
Typings(t, rootTypes, leafTypes) ==
    { f \in [t -> leafTypes \cup rootTypes \cup {"dir"}] :
        /\ f[Root] \in rootTypes
        /\ \A p \in t : Children(f, p) # {} => f[p] = "dir"
        /\ \A p \in t \ {Root} : f[p] \in leafTypes }

\* root/{keep.txt, node_modules/x.js, .hidden/y.txt}
LocalScenarioTree ==
    (Root :> "dir") @@ (<<NameKeep>> :> "file")
    @@ (<<NameNodeModules>> :> "dir") @@ (<<NameNodeModules, NameXJs>> :> "file")
    @@ (<<NameHidden>> :> "dir") @@ (<<NameHidden, NameYTxt>> :> "file")

\* root/{a/{b/{c}}}
LocalChainTree ==
    (Root :> "dir") @@ (<<NameA>> :> "dir") @@ (<<NameA, NameB>> :> "dir")
    @@ (<<NameA, NameB, NameC>> :> "file")

LocalTrees ==
    UNION { Typings(t, {"dir"}, {"dir", "file"}) : t \in TreesUpTo(MaxNodes) }
    \cup {LocalScenarioTree, LocalChainTree}

Nothing == [p \in {} |-> "dir"]
OnlyRoot == [p \in {Root} |-> "dir"]

\* a symbolic link points to a path and, through it, at a directory, at a
\* file or at nothing; a path outside the root starts with ".."
Target(to, kind) == [to |-> to, kind |-> kind]
NameUp == <<".", ".">>
Outside(p) == Len(p) > 0 /\ p[1] = NameUp
NoLinks == [p \in {} |-> Target(Root, "none")]
World(fs, ln) == [fs |-> fs, links |-> ln]

\* root/{.h/{a/}, b -> .h/a}: a link into a directory the walk prunes
LinkIntoPruned ==
    World((Root :> "dir") @@ (<<NameDot>> :> "dir")
            @@ (<<NameDot, NameA>> :> "dir") @@ (<<NameB>> :> "lnk"),
          (<<NameB>> :> Target(<<NameDot, NameA>>, "dir")))
\* root/{a/{c}, b -> a/c}: a link to a file the walk meets as well
LinkToFile ==
    World((Root :> "dir") @@ (<<NameA>> :> "dir")
            @@ (<<NameA, NameC>> :> "file") @@ (<<NameB>> :> "lnk"),
          (<<NameB>> :> Target(<<NameA, NameC>>, "file")))
\* root/{a, b -> ../c/}: a link to a directory outside the root
LinkOutside ==
    World((Root :> "dir") @@ (<<NameA>> :> "file") @@ (<<NameB>> :> "lnk"),
          (<<NameB>> :> Target(<<NameUp, NameC>>, "dir")))
\* root/{.h/, b -> .h}: a link to a directory the walk prunes
LinkToPruned ==
    World((Root :> "dir") @@ (<<NameDot>> :> "dir") @@ (<<NameB>> :> "lnk"),
          (<<NameB>> :> Target(<<NameDot>>, "dir")))
\* root/{a/, b -> c}: a link to nothing
LinkBroken ==
    World((Root :> "dir") @@ (<<NameA>> :> "dir") @@ (<<NameB>> :> "lnk"),
          (<<NameB>> :> Target(<<NameC>>, "none")))

\* the orders in which the directories of a tree can be listed
Listings(fs) ==
    LET D == { d \in DOMAIN fs : fs[d] = "dir" }
        All == UNION { Perms(Children(fs, d)) : d \in D }
    IN  { f \in [D -> All] : \A d \in D : f[d] \in Perms(Children(fs, d)) }
NoListing == [d \in {} |-> <<>>]

\* the projects that are deployed: the example trees
DeployWorlds ==
    {World(LocalScenarioTree, NoLinks), LinkIntoPruned, LinkOutside}

LocalWorlds ==
    { World(f, NoLinks) : f \in LocalTrees }
    \cup {LinkIntoPruned, LinkToFile, LinkOutside, LinkToPruned, LinkBroken}

----------------------------------------------------------------------------
(* cr/utils.py *)

IsDir(f, p) == p \in DOMAIN f /\ f[p] = "dir"
IsFile(f, p) == p \in DOMAIN f /\ f[p] = "file"

\* Path.resolve(): the path with its symbolic link followed (only the last
\* component can be one: nothing is ever reached through a link)
Resolve(p) ==
    IF p \in DOMAIN lfs /\ lfs[p] = "lnk" THEN links[p].to ELSE p
Resolved(s) == [k \in 1..Len(s) |-> Resolve(s[k])]
\* what a path is for Path.is_dir() and Path.is_file(), which follow links
KindOf(p) ==
    IF p \in DOMAIN lfs
      THEN IF lfs[p] = "lnk" THEN links[p].kind ELSE lfs[p]
      ELSE IF \E l \in DOMAIN links : links[l].to = p
        THEN links[CHOOSE l \in DOMAIN links : links[l].to = p].kind
        ELSE "none"
is_dir(p) == KindOf(p) = "dir"
is_file(p) == KindOf(p) = "file"

is_in_path(q, paths) ==
    \/ q \in paths
    \/ \E p \in paths : is_dir(p) /\ p \in Parents(q)

NameExcluded(p) ==
    StartsWithDot(BaseName(p)) \/ BaseName(p) \in EXCLUDE_DIRNAMES

\* mutants of DirDecision: the name rule forgotten, the exclude list
\* forgotten, the exclusion tested before the inclusion
DirDecision_NoNameRule(dpr) ==
    IF is_in_path(dpr, i) THEN "include"
    ELSE IF is_in_path(dpr, e) THEN "exclude"
    ELSE "default"
DirDecision_NoExcludeList(dpr) ==
    IF is_in_path(dpr, i) THEN "include"
    ELSE IF NameExcluded(dpr) THEN "exclude"
    ELSE "default"
DirDecision_ExcludeFirst(dpr) ==
    IF is_in_path(dpr, e) \/ NameExcluded(dpr) THEN "exclude"
    ELSE IF is_in_path(dpr, i) THEN "include"
    ELSE "default"

\* the if / elif / else of the directory loop of paths_to_deploy
DirDecision(dpr) ==
    IF is_in_path(dpr, i) THEN "include"
    ELSE IF is_in_path(dpr, e) \/ NameExcluded(dpr) THEN "exclude"
    ELSE "default"

\* the if / elif / else of the file loop of paths_to_deploy
\* a mutant of FileDecision: the name rule of the directories applied
FileDecision_NameRule(fpr) ==
    IF is_in_path(fpr, i) THEN "include"
    ELSE IF is_in_path(fpr, e) \/ NameExcluded(fpr) THEN "exclude"
    ELSE "default"

FileDecision(fpr) ==
    IF is_in_path(fpr, i) THEN "include"
    ELSE IF is_in_path(fpr, e) THEN "exclude"
    ELSE "default"

\* dpr = dp.resolve() and fpr = fp.resolve() are what is tested
KeepDir(d) == DirDecision(Resolve(d)) # "exclude"
KeepFile(f) == FileDecision(Resolve(f)) # "exclude"
\* os.walk(r) does not walk into a symbolic link
Walked(d) == lfs[d] = "dir"


----------------------------------------------------------------------------
(* The remote server as the SFTP primitives of cr/ssh.py see it *)

\* one primitive call: its name, its path argument, how it ended, and the
\* mode argument of mkdir
Op(name, path, res) == [op |-> name, path |-> path, res |-> res, mode |-> ""]
MkdirOp(path, res) ==
    [op |-> "mkdir", path |-> path, res |-> res, mode |-> "0o770"]

\* sftp.lstat: FileNotFoundError when the path is absent; any call may also
\* fail for another reason (connection lost, permission denied)
LstatOutcomes(p) ==
    (IF p \in DOMAIN rfs THEN {"ok"} ELSE {"notfound"}) \cup {"error"}

\* sftp.mkdir succeeds only for an absent path in an existing directory
MkdirOutcomes(p) ==
    (IF p \notin DOMAIN rfs /\ IsDir(rfs, Parent(p)) THEN {"ok"} ELSE {})
        \cup {"error"}

\* sftp.put reads a local file (the path below the local root that the
\* remote path mirrors); it succeeds only into an existing directory and
\* not over a directory
PutOutcomes(p) ==
    (IF is_file(p) /\ IsDir(rfs, Parent(p)) /\ ~IsDir(rfs, p)
        THEN {"ok"} ELSE {})
        \cup {"error"}

\* what a failed sftp.put may leave behind: nothing, or a partial file
PutFailureLeaves(p) ==
    {rfs} \cup
    (IF is_file(p) /\ IsDir(rfs, Parent(p)) /\ ~IsDir(rfs, p)
        THEN { (p :> "partial") @@ rfs } ELSE {})

----------------------------------------------------------------------------
(* Control *)

CliCommands == {"upload", "deploy", "download"}
PutCommands == {"upload", "deploy", "put"}
\* ... and Server.put called again with the same arguments
PutCallers == PutCommands \cup {"reput"}
GetCommands == {"download", "get"}

\* mutant of Raise: the exception passes the finally clause by
Raise_PastFinally ==
    /\ err' = TRUE
    /\ pc' = "raised"

\* an exception leaves put/get: inside a command the finally clause runs
\* next, a direct call just raises
Raise ==
    /\ err' = TRUE
    /\ pc' = IF cmd \in CliCommands THEN "closing" ELSE "raised"

\* put/get returned normally
Return ==
    /\ err' = err
    /\ pc' = IF cmd \in CliCommands THEN "closing" ELSE "done"

\* progress.print(...), progress.add_task(..., total=n) and
\* progress.update(t, advance=1), each behind `if progress:`
Notice(kind, path) == [kind |-> kind, path |-> path]
Emit(kind, path) ==
    IF progress THEN Append(events, Notice(kind, path)) ELSE events
\* a mutant of AddTask: no task for nothing to do
AddTask_Skipped(n) == IF progress /\ n > 0 THEN Append(tasks, n) ELSE tasks

AddTask(n) == IF progress THEN Append(tasks, n) ELSE tasks
Advance == IF progress THEN advanced + 1 ELSE advanced

\* the same calls as entries of the trace, next to the primitives
Step(what, name, path) == [what |-> what, name |-> name, path |-> path]
Called(o) == <<Step("op", o.op, o.path)>>
Printed(kind, path) ==
    IF progress THEN <<Step("print", kind, path)>> ELSE <<>>
TaskAdded == IF progress THEN <<Step("task", "add_task", <<>>)>> ELSE <<>>
Updated == IF progress THEN <<Step("advance", "update", <<>>)>> ELSE <<>>

----------------------------------------------------------------------------
(* cr/cli.py Upload.run and Deploy.run, up to the connection *)

\* Upload.run lines 799-806, Deploy.run lines 387-390: the list of files is
\* built before the Server exists; upload of a single file skips the walk
UploadStart ==
    /\ cmd \in {"upload", "deploy"} /\ pc = "start"
    /\ IF cmd = "deploy" \/ IsDir(lfs, argpath)
          THEN /\ pc' = "walk"
               /\ stack' = <<argpath>>
               /\ lp' = <<>>
          ELSE /\ pc' = "password"
               /\ stack' = <<>>
               /\ lp' = <<argpath>>
    /\ UNCHANGED <<args, solo, api, err, lfs, rfs, e, returned, scan, idx, conn, ops, sink>>

\* where a walk that is over goes on: the command asks for the password,
\* a direct call returns its list
AfterWalk ==
    IF cmd = "walk" THEN "return"
    ELSE IF cmd = "files" THEN "done"
    ELSE "password"
\* os.walk puts the entries that are directories (links to directories
\* too) into dirs and the others into files, in the order of the listing
IsDirEntry(c) == is_dir(c)
IsFileEntry(c) == ~is_dir(c)
\* the entries of a directory in the order of its listing; a command walks
\* once and lists each directory once, so that its order can be any and
\* is taken when the directory is listed
Scandir(d) ==
    IF d \in DOMAIN listing THEN {listing[d]} ELSE Perms(Children(lfs, d))

\* one iteration of `for root, dirs, files in os.walk(r)`: os.walk yields a
\* directory, the body appends or prunes its entries, and os.walk then
\* descends into the directories left in dirs, in order, before it goes on
\* with what was pending. The order of a listing is the operating system's.
WalkStep ==
    /\ cmd \in {"upload", "deploy", "walk", "files"} /\ pc = "walk"
    /\ stack # <<>>
    /\ \E entries \in Scandir(Head(stack)) :
         LET ds == SelectSeq(entries, IsDirEntry)
             fsq == SelectSeq(entries, IsFileEntry)
             kept == SelectSeq(ds, KeepDir)
             rest == SelectSeq(kept, Walked) \o Tail(stack)
         IN  /\ lp' = lp \o Resolved(kept)
                         \o Resolved(SelectSeq(fsq, KeepFile))
             /\ stack' = rest
             /\ pc' = IF rest = <<>> THEN AfterWalk ELSE "walk"
    /\ UNCHANGED <<args, solo, api, err, lfs, rfs, e, returned, scan, idx, conn, ops, sink>>

\* a mutant of PathsToDeployCall: the list is not made anew by the call
PathsToDeployCall_SharedList ==
    /\ cmd = "walk" /\ pc = "idle" /\ Len(returned) < MaxRuns
    /\ pc' = "walk"
    /\ stack' = <<Root>>
    /\ lp' = lp
    /\ UNCHANGED <<args, solo, api, err, lfs, rfs, e, returned, scan, idx, conn, ops, sink>>

\* paths_to_deploy(r, e, i) called on its own: lp = [] and the walk begins
PathsToDeployCall ==
    /\ cmd = "walk" /\ pc = "idle" /\ Len(returned) < MaxRuns
    /\ pc' = "walk"
    /\ stack' = <<Root>>
    /\ lp' = <<>>
    /\ UNCHANGED <<args, solo, api, err, lfs, rfs, e, returned, scan, idx, conn, ops, sink>>

\* return lp
PathsToDeployReturn ==
    /\ cmd = "walk" /\ pc = "return"
    /\ returned' = Append(returned, lp)
    /\ pc' = "idle"
    /\ UNCHANGED <<args, solo, api, err, lfs, rfs, e, stack, lp, scan, idx, conn, ops, sink>>

\* one run of a program: whether it is on the PATH ("missing", "found", or
\* "unusable": there, but the system refuses to start it), and if it ran,
\* its exit code and the lines it wrote
Run(found, code, out) == [found |-> found, code |-> code, out |-> out]
NoGit == Run("missing", 0, <<>>)
GitRuns(paths) ==
    {NoGit, Run("unusable", 0, <<>>)} \cup
    { Run("found", c, o) : c \in {0, 1, 128},
                           o \in {<<>>} \cup { <<p>> : p \in paths } }

\* what a call gives: a value, or an exception
Returns(v) == [raised |-> "", value |-> v]
Raises(x) == [raised |-> x, value |-> <<>>]

\* utils.py exec_proc: get_command raises FileNotFoundError when the
\* program is not on the PATH, Popen raises what the system reports when
\* it cannot start it; otherwise (code, stdout, stderr)
exec_proc(run) ==
    IF run.found = "missing" THEN Raises("FileNotFoundError")
    ELSE IF run.found = "unusable" THEN Raises("PermissionError")
    ELSE Returns([code |-> run.code, out |-> run.out])

\* a mutant of git_ignored: neither the exception nor the exit code is
\* looked at
git_ignored_Unchecked(run) ==
    LET r == exec_proc(run)
    IN  IF r.raised # "" THEN r ELSE Returns(Resolved(r.value.out))

\* utils.py git_ignored: the resolved paths that git lists, and the empty
\* list when git is not there or exits with an error
git_ignored(run) ==
    LET r == exec_proc(run)
    IN  IF r.raised = "FileNotFoundError" THEN Returns(<<>>)
        ELSE IF r.raised # "" THEN r
        ELSE IF r.value.code # 0 THEN Returns(<<>>)
        ELSE Returns(Resolved(r.value.out))

\* Upload.run lines 799-803, Deploy.run lines 386-390, on their own:
\* exclude = git_ignored(args.path); exclude += config_path_list(...), and
\* paths_to_deploy begins
ExcludeList ==
    /\ cmd = "files" /\ pc = "start"
    /\ LET r == git_ignored(git)
       IN  IF r.raised = ""
             THEN /\ e' = SeqToSet(r.value) \cup deploy_exclude
                  /\ pc' = "walk"
                  /\ stack' = <<Root>>
                  /\ err' = err
             ELSE /\ e' = e
                  /\ pc' = "raised"
                  /\ stack' = stack
                  /\ err' = TRUE
    /\ UNCHANGED <<args, solo, api, lfs, rfs, lp, returned, scan, idx, conn, ops, sink>>

\* an exception while the list is built (Path.resolve, the configuration)
\* leaves run before the try block is entered
WalkRaise ==
    /\ cmd \in {"upload", "deploy"} /\ pc = "walk"
    /\ pc' = "raised"
    /\ err' = TRUE
    /\ UNCHANGED <<args, solo, api, lfs, rfs, e, walk, scan, idx, conn, ops, sink>>

----------------------------------------------------------------------------
(* cr/cli.py: password, connect, open_sftp, finally close *)

\* w.api_get_sftp_password(), outside the try block
ApiGetSftpPassword ==
    /\ cmd \in CliCommands /\ pc = "password"
    /\ \E ok \in BOOLEAN :
         IF ok THEN pc' = "connect" /\ err' = err
               ELSE pc' = "raised" /\ err' = TRUE
    /\ UNCHANGED <<args, solo, api, lfs, rfs, e, walk, scan, idx, conn, ops, sink>>

\* one thing done to a connection object: the handshake of a new SSHClient
\* (c.connect), a channel opened on the client (client.open_sftp), or the
\* close of either. Objects are numbered in the order they are made.
Conn(act, obj, res) == [act |-> act, obj |-> obj, res |-> res]
Made(log, act) == { k \in 1..Len(log) : log[k].act = act }
NewObj(act) == Cardinality(Made(conns, act)) + 1
\* the object a successful call of that kind made last
LastObj(log, act) ==
    LET K == { k \in Made(log, act) : log[k].res = "ok" }
    IN  IF K = {} THEN 0 ELSE log[CHOOSE k \in K : \A j \in K : j <= k].obj
Outcome(ok) == IF ok THEN "ok" ELSE "error"

\* mutant of ConnectOutcomes: self._client is not looked at
ConnectOutcomes_AlwaysNew ==
    { [ok |-> ok, client |-> (ok \/ client),
       log |-> <<Conn("handshake", NewObj("handshake"), Outcome(ok))>>] :
      ok \in BOOLEAN }

\* Server.connect: what it may do. The client held is returned as it is;
\* otherwise a new SSHClient is made and connected, and kept if that worked
ConnectOutcomes ==
    IF client
      THEN { [ok |-> TRUE, client |-> TRUE, log |-> <<>>] }
      ELSE { [ok |-> ok, client |-> ok,
              log |-> <<Conn("handshake", NewObj("handshake"), Outcome(ok))>>] :
             ok \in BOOLEAN }

\* mutant of OpenSftpOutcomes: self._sftp is not looked at
OpenSftpOutcomes_AlwaysNew ==
    UNION { IF c.ok
              THEN { [ok |-> ok, client |-> TRUE, sftp |-> (ok \/ sftp),
                      log |-> c.log \o
                        <<Conn("channel", NewObj("channel"), Outcome(ok))>>] :
                     ok \in BOOLEAN }
              ELSE { [ok |-> FALSE, client |-> c.client, sftp |-> sftp,
                      log |-> c.log] } :
            c \in ConnectOutcomes }

\* mutant of OpenSftpOutcomes: the client that connect gave is not kept
OpenSftpOutcomes_ClientNotKept ==
    IF sftp
      THEN { [ok |-> TRUE, client |-> client, sftp |-> TRUE, log |-> <<>>] }
      ELSE UNION {
             IF c.ok
               THEN { [ok |-> ok, client |-> client, sftp |-> ok,
                       log |-> c.log \o
                         <<Conn("channel", NewObj("channel"), Outcome(ok))>>] :
                      ok \in BOOLEAN }
               ELSE { [ok |-> FALSE, client |-> FALSE, sftp |-> FALSE,
                       log |-> c.log] } :
             c \in ConnectOutcomes }

\* Server.open_sftp: the channel held is returned as it is; otherwise
\* connect() gives the client and a channel is opened on it
OpenSftpOutcomes ==
    IF sftp
      THEN { [ok |-> TRUE, client |-> client, sftp |-> TRUE, log |-> <<>>] }
      ELSE UNION {
             IF c.ok
               THEN { [ok |-> ok, client |-> TRUE, sftp |-> ok,
                       log |-> c.log \o
                         <<Conn("channel", NewObj("channel"), Outcome(ok))>>] :
                      ok \in BOOLEAN }
               ELSE { [ok |-> FALSE, client |-> FALSE, sftp |-> FALSE,
                       log |-> c.log] } :
             c \in ConnectOutcomes }

\* mutant of CloseOutcome: the objects are closed but still referred to
CloseOutcome_KeepsRefs ==
    [client |-> client, sftp |-> sftp,
     log |-> (IF sftp THEN <<Conn("close_sftp", LastObj(conns, "channel"), "ok")>>
                      ELSE <<>>)
             \o (IF client
                   THEN <<Conn("close_client", LastObj(conns, "handshake"), "ok")>>
                   ELSE <<>>)]

\* Server.close: each object that is held is closed and let go
CloseOutcome ==
    [client |-> FALSE, sftp |-> FALSE,
     log |-> (IF sftp THEN <<Conn("close_sftp", LastObj(conns, "channel"), "ok")>>
                      ELSE <<>>)
             \o (IF client
                   THEN <<Conn("close_client", LastObj(conns, "handshake"), "ok")>>
                   ELSE <<>>)]

\* Server.connect as called by the command
Connect ==
    /\ cmd \in CliCommands /\ pc = "connect"
    /\ \E o \in ConnectOutcomes :
         /\ client' = o.client
         /\ conns' = conns \o o.log
         /\ IF o.ok THEN pc' = "open_sftp" /\ err' = err
                    ELSE pc' = "closing" /\ err' = TRUE
    /\ UNCHANGED <<args, solo, api, lfs, rfs, e, walk, scan, idx, sftp, calls, ops, sink>>

\* Server.open_sftp as called by the command
OpenSftp ==
    /\ cmd \in CliCommands /\ pc = "open_sftp"
    /\ \E o \in OpenSftpOutcomes :
         /\ client' = o.client
         /\ sftp' = o.sftp
         /\ conns' = conns \o o.log
         /\ IF o.ok THEN pc' = "transfer" /\ err' = err
                    ELSE pc' = "closing" /\ err' = TRUE
    /\ UNCHANGED <<args, solo, api, lfs, rfs, e, walk, scan, idx, calls, ops, sink>>

\* mutant of Close: the exception of the try block is lost in the finally
\* clause
Close_LosesException ==
    /\ cmd \in CliCommands /\ pc = "closing"
    /\ sftp' = CloseOutcome.sftp
    /\ client' = CloseOutcome.client
    /\ conns' = conns \o CloseOutcome.log
    /\ pc' = IF cmd = "deploy" THEN "deploy"
             ELSE IF err THEN "raised" ELSE "done"
    /\ UNCHANGED <<args, solo, api, err, lfs, rfs, e, walk, scan, idx, calls, ops, sink>>

\* Server.close in the finally clause
Close ==
    /\ cmd \in CliCommands /\ pc = "closing"
    /\ sftp' = CloseOutcome.sftp
    /\ client' = CloseOutcome.client
    /\ conns' = conns \o CloseOutcome.log
    /\ pc' = IF err THEN "raised"
             ELSE IF cmd = "deploy" THEN "deploy" ELSE "done"
    /\ UNCHANGED <<args, solo, api, err, lfs, rfs, e, walk, scan, idx, calls, ops, sink>>

\* a Server used directly: connect, open_sftp and close called in any order.
\* An exception of a call goes to the caller, who may go on calling.
Call(name, res, obj) == [call |-> name, res |-> res, obj |-> obj]

SessionConnect ==
    /\ cmd = "session" /\ pc = "idle" /\ Len(calls) < MaxCalls
    /\ \E o \in ConnectOutcomes :
         /\ client' = o.client
         /\ conns' = conns \o o.log
         /\ calls' = Append(calls,
              Call("connect", Outcome(o.ok),
                   IF o.ok THEN LastObj(conns \o o.log, "handshake") ELSE 0))
    /\ UNCHANGED <<args, solo, api, pc, err, lfs, rfs, e, walk, scan, idx, sftp, ops, sink>>

SessionOpenSftp ==
    /\ cmd = "session" /\ pc = "idle" /\ Len(calls) < MaxCalls
    /\ \E o \in OpenSftpOutcomes :
         /\ client' = o.client
         /\ sftp' = o.sftp
         /\ conns' = conns \o o.log
         /\ calls' = Append(calls,
              Call("open_sftp", Outcome(o.ok),
                   IF o.ok THEN LastObj(conns \o o.log, "channel") ELSE 0))
    /\ UNCHANGED <<args, solo, api, pc, err, lfs, rfs, e, walk, scan, idx, ops, sink>>

SessionClose ==
    /\ cmd = "session" /\ pc = "idle" /\ Len(calls) < MaxCalls
    /\ client' = CloseOutcome.client
    /\ sftp' = CloseOutcome.sftp
    /\ conns' = conns \o CloseOutcome.log
    /\ calls' = Append(calls, Call("close", "ok", 0))
    /\ UNCHANGED <<args, solo, api, pc, err, lfs, rfs, e, walk, scan, idx, ops, sink>>

\* put or get called on a Server used directly (ssh.py 96, 139): what the
\* call does to the Server is its open_sftp; the transfer that follows
\* returns or raises and leaves the client and the channel as they are
SessionTransfer ==
    /\ cmd = "session" /\ pc = "idle" /\ Len(calls) < MaxCalls
    /\ \E name \in {"put", "get"}, o \in OpenSftpOutcomes :
         /\ client' = o.client
         /\ sftp' = o.sftp
         /\ conns' = conns \o o.log
         /\ \E res \in (IF o.ok THEN {"ok", "error"} ELSE {"error"}) :
              calls' = Append(calls, Call(name, res, 0))
    /\ UNCHANGED <<args, solo, api, pc, err, lfs, rfs, e, walk, scan, idx, ops, sink>>

\* Deploy.run lines 415-422: the deployment is queued through the API once
\* the upload is closed (api_queue_deploy raises when the API refuses)
ApiQueueDeploy ==
    /\ cmd = "deploy" /\ pc = "deploy"
    /\ \E ok \in BOOLEAN :
         IF ok THEN pc' = "poll" /\ err' = err
               ELSE pc' = "raised" /\ err' = TRUE
    /\ UNCHANGED <<args, solo, api, lfs, rfs, e, walk, scan, idx, conn, ops, sink>>

\* the statuses of a task, and what api_get_task can meet: a task dict
\* with one of them, or an HTTP status >= 400 ("failed": it raises)
TaskStatuses == {"queued", "running", "completed", "error"}
ApiAnswers == TaskStatuses \cup {"failed"}
\* api.py line 561: for i in range(18)
PollAttempts == 18

\* one iteration of the loop of api_poll_task (api.py 561-565): the query,
\* and either the sleep before the next one or the return of the dict to
\* Deploy.run, which raises "Deployment encountered an error" unless the
\* status is "completed" (cli.py 425-435) and polls the logs otherwise
ApiPollTask ==
    /\ cmd = "deploy" /\ pc = "poll" /\ Len(polled) < PollAttempts
    /\ \E answer \in ApiAnswers :
         /\ polled' = Append(polled, answer)
         /\ IF answer = "failed"
              THEN /\ pc' = "raised" /\ err' = TRUE /\ api_task' = api_task
                   /\ poll_exc' = "Exception"
            ELSE IF answer = "queued"
              THEN /\ pc' = "poll" /\ err' = err /\ api_task' = api_task
                   /\ poll_exc' = poll_exc
            ELSE /\ api_task' = answer
                 /\ poll_exc' = poll_exc
                 /\ IF answer # "completed"
                      THEN pc' = "raised" /\ err' = TRUE
                      ELSE pc' = "logs" /\ err' = err
    /\ UNCHANGED <<args, solo, lfs, rfs, e, walk, scan, idx, conn, ops, sink>>

\* mutant of ApiPollTimeout: the last dict returned when the loop is over
ApiPollTimeout_Returns ==
    /\ cmd = "deploy" /\ pc = "poll" /\ Len(polled) = PollAttempts
    /\ pc' = "raised"
    /\ err' = TRUE
    /\ api_task' = polled[Len(polled)]
    /\ UNCHANGED <<args, solo, polled, poll_exc, lfs, rfs, e, walk, scan, idx,
                   conn, ops, sink>>

\* api.py line 566: the loop is over, TimeoutError
ApiPollTimeout ==
    /\ cmd = "deploy" /\ pc = "poll" /\ Len(polled) = PollAttempts
    /\ pc' = "raised"
    /\ err' = TRUE
    /\ poll_exc' = "TimeoutError"
    /\ UNCHANGED <<args, solo, polled, api_task, lfs, rfs, e, walk, scan, idx, conn, ops, sink>>

\* Deploy.run lines 437-447: the logs are polled; the API may refuse
ApiPollLogs ==
    /\ cmd = "deploy" /\ pc = "logs"
    /\ \E ok \in BOOLEAN :
         IF ok THEN pc' = "done" /\ err' = err
               ELSE pc' = "raised" /\ err' = TRUE
    /\ UNCHANGED <<args, solo, api, lfs, rfs, e, walk, scan, idx, conn, ops, sink>>

----------------------------------------------------------------------------
(* cr/api.py Webapp.api_poll_logs *)

\* api.py line 514: for i in range(18)
LogAttempts == 18

\* a line of the log as the API returns it
Line(log, datetime, source) ==
    [log |-> log, datetime |-> datetime, source |-> source]
\* a text with the character \x04 in it
TextEOT == "end\\x04"
\* what the n-th api_get_logs can return: nothing, a line, two lines of
\* which the last is the older one, a line and the line of the end of the
\* transmission, that line and one after it; only the first fetches get
\* more than one batch after which the loop goes on
Batches(n) ==
    { <<>>,
      <<Line("a", 2 * n, "stdout")>>,
      <<Line("a", 2 * n, "stdout"), Line(TextEOT, 2 * n + 1, "stdout")>>,
      <<Line(TextEOT, 2 * n, "stdout"), Line("b", 2 * n + 1, "stderr")>> }
    \cup (IF n <= MaxVaried
            THEN { <<Line("a", 2 * n + 1, "stderr"), Line("b", 2 * n, "stdout")>> }
            ELSE {})

\* lines 519-528: what progress.print gets for a line
Shown(line) ==
    [text |-> line.log,
     style |-> IF line.source = "stderr" THEN "logging.level.warning" ELSE ""]
ShownAll(b) == [k \in 1..Len(b) |-> Shown(b[k])]
\* lines 517-518 and 531-532
Kill(b) == b = <<>> \/ \E k \in 1..Len(b) : b[k].log = TextEOT
\* mutant of NextSince: the datetime of the first line of the batch
NextSince_First(b, s) == IF b = <<>> THEN s ELSE b[1].datetime
\* line 521, for every line of the batch in turn
NextSince(b, s) == IF b = <<>> THEN s ELSE b[Len(b)].datetime

Fetch(s, b) == [since |-> s, logs |-> b]

\* one iteration of the loop (lines 514-535): api_get_logs, which raises
\* when the API refuses, the lines printed, and the break or the sleep
ApiGetLogs ==
    /\ cmd = "logs" /\ pc = "start" /\ Len(fetches) < LogAttempts
    /\ \/ /\ pc' = "raised"
          /\ err' = TRUE
          /\ UNCHANGED logs
       \/ \E b \in Batches(Len(fetches) + 1) :
            /\ fetches' = Append(fetches, Fetch(since, b))
            /\ shown' = shown \o ShownAll(b)
            /\ since' = NextSince(b, since)
            /\ pc' = IF Kill(b) THEN "done" ELSE "start"
            /\ err' = err
    /\ UNCHANGED <<args, main, cfg, puts, api, lfs, rfs, e, walk, scan, idx,
                   conn, ops, sink>>

\* the loop is over after its 18th iteration: api_poll_logs returns
ApiPollLogsOver ==
    /\ cmd = "logs" /\ pc = "start" /\ Len(fetches) = LogAttempts
    /\ pc' = "done"
    /\ UNCHANGED <<args, solo, api, err, lfs, rfs, e, walk, scan, idx, conn,
                   ops, sink>>

----------------------------------------------------------------------------
(* cr/cli.py main *)

\* how runcli can end: it returns (the sub-command is through, or there was
\* none to run), or an exception leaves it. SystemExit is what argparse
\* raises from parse_args (cli.py 917): CustomArgumentParser.error exits
\* with 2 (cli.py 131), --help with 0.
RuncliOutcomes ==
    {"return", "KeyboardInterrupt", "UserCancelError", "Exception",
     "SystemExit"}
\* the exceptions of the first except clause (cli.py 951)
Cancels == {"KeyboardInterrupt", "UserCancelError"}
\* the status of a process that an uncaught KeyboardInterrupt ends: 1, or
\* that of a death by SIGINT, as the interpreter has it
InterruptedStatus == {1, 130}

\* cli.py line 948: runcli()
Runcli ==
    /\ cmd = "main" /\ pc = "start"
    /\ \E out \in RuncliOutcomes :
         /\ ran' = out
         /\ exc' = IF out = "return" THEN "none" ELSE out
         /\ IF out = "SystemExit"
              THEN \* no clause of main catches it
                   /\ pc' = "exited"
                   /\ exit_code' \in {0, 2}
              ELSE /\ exit_code' = exit_code
                   /\ pc' = IF out = "return" THEN "try"
                            ELSE IF out \in Cancels THEN "cancelled"
                            ELSE "failed"
    /\ UNCHANGED <<args, cfg, logs, puts, api, err, lfs, rfs, e, walk, scan, idx,
                   conn, ops, sink, updates>>

\* api.py 662-697 as main calls it: check_update swallows every Exception
\* of its request (line 695); a KeyboardInterrupt passes through it
CheckUpdateOutcomes == {"return", "KeyboardInterrupt"}

\* cli.py lines 949, 955-956 and 961-962: check_update in the try block
\* and in either except clause, and what follows it
CheckUpdate ==
    /\ cmd = "main" /\ pc \in {"try", "cancelled", "failed"}
    /\ updates' = updates + 1
    /\ \E out \in CheckUpdateOutcomes :
         IF out = "return"
           THEN /\ pc' = "exited"
                /\ exc' = "none"
                /\ exit_code' = IF pc = "try" THEN 0
                                ELSE IF pc = "cancelled" THEN 2 ELSE 1
         ELSE IF pc = "try"
           THEN \* raised inside the try block: the first except clause
                /\ pc' = "cancelled"
                /\ exc' = out
                /\ exit_code' = exit_code
           ELSE \* raised inside an except clause: it leaves main
                /\ pc' = "exited"
                /\ exc' = out
                /\ exit_code' \in InterruptedStatus
    /\ UNCHANGED <<args, cfg, logs, puts, api, err, lfs, rfs, e, walk, scan, idx,
                   conn, ops, sink, ran>>

----------------------------------------------------------------------------
(* cr/config.py config *)

\* line 20
SECRETS == {"token"}
\* the options a call can ask for: as the files have them, and one in
\* another case
Options == {"token", "test_str", "Test_Str"}
\* configparser's optionxform, which the parser applies to the options it
\* reads and to the option of a lookup in a section: lower case
optionxform(k) == IF k = "Test_Str" THEN "test_str" ELSE k
\* f"CR_{k.upper()}" (line 66)
EnvName(k) == IF optionxform(k) = "token" THEN "CR_TOKEN" ELSE "CR_TEST_STR"
\* the values of the files as written, %% being a percent sign for the
\* parser's interpolation
CrValues == {"a", "c%%"}
WebappValues == {"b", "d%%"}
\* BasicInterpolation.before_get, which a lookup in a section applies to
\* the value it found
Interpolated(v) ==
    IF v = "c%%" THEN "c%" ELSE IF v = "d%%" THEN "d%" ELSE v

Query(k, w, f) == [k |-> k, w |-> w, f |-> f]

\* _CONFIG[w].get(k, val) (line 60): SectionProxy.get looks the option up
\* in the section, then in the default section, and interpolates
SectionGet(w, k, fallback) ==
    LET o == optionxform(k)
    IN  IF o \in DOMAIN ini[w] THEN Interpolated(ini[w][o])
        ELSE IF o \in DOMAIN ini["cr"] THEN Interpolated(ini["cr"][o])
        ELSE fallback
\* _CONFIG.defaults().get(k, val) (line 62): the get of the dict of the
\* default section, on the option as given and the value as written
DefaultsGet(k, fallback) ==
    IF k \in DOMAIN ini["cr"] THEN ini["cr"][k] ELSE fallback

\* lines 56-70
config(k, w, f) ==
    LET val == IF w \in DOMAIN ini THEN SectionGet(w, k, f)
                                  ELSE DefaultsGet(k, f)
    IN  IF k \in SECRETS /\ EnvName(k) \in DOMAIN environ
          THEN environ[EnvName(k)] ELSE val

Config ==
    /\ cmd = "config" /\ pc = "start"
    /\ value' = config(query.k, query.w, query.f)
    /\ pc' = "done"
    /\ UNCHANGED <<args, main, logs, puts, api, err, lfs, rfs, e, walk, scan, idx,
                   conn, ops, sink, ini, environ, query>>

\* a direct call of Server.put or Server.get on a fresh Server
CallStart ==
    /\ cmd \in {"put", "get", "reput"} /\ pc = "start"
    /\ pc' = "transfer"
    /\ UNCHANGED <<args, solo, api, err, lfs, rfs, e, walk, scan, idx, conn, ops, sink>>

----------------------------------------------------------------------------
(* cr/ssh.py Server.put *)

\* lines 98-99
PutRoot == IF IsFile(lfs, argpath) THEN Parent(argpath) ELSE argpath

\* lines 95-103: open_sftp (which connects when there is no client yet),
\* the root, the upload task
PutBegin ==
    /\ cmd \in PutCallers /\ pc = "transfer"
    /\ \E o \in OpenSftpOutcomes :
         /\ client' = o.client
         /\ sftp' = o.sftp
         /\ conns' = conns \o o.log
         /\ IF o.ok
              THEN /\ idx' = 1
                   /\ tasks' = AddTask(Len(lp))
                   /\ trace' = trace \o TaskAdded
                   /\ IF lp = <<>> THEN Return ELSE pc' = "put" /\ err' = err
              ELSE /\ UNCHANGED <<idx, tasks, trace>>
                   /\ Raise
    /\ UNCHANGED <<args, solo, api, lfs, rfs, e, walk, scan, calls, ops, events, advanced>>

\* after item idx: progress.update, then the next item or the end
PutAdvance ==
    /\ idx' = idx + 1
    /\ advanced' = Advance
    /\ IF idx = Len(lp) THEN Return ELSE pc' = "put" /\ err' = err

\* an exception in the body of the loop
PutAbort ==
    /\ UNCHANGED <<idx, advanced>>
    /\ Raise

\* mutants of PutDir: no mkdir after a stat that found nothing, and a
\* mkdir after any failure of the stat
PutDir_NoMkdir(relative_p, remote_p) ==
    \E st \in LstatOutcomes(remote_p) :
       /\ ops' = Append(ops, Op("lstat", remote_p, st))
       /\ UNCHANGED <<rfs, events>>
       /\ IF st = "error"
            THEN /\ trace' = trace \o Called(Op("lstat", remote_p, st))
                 /\ PutAbort
            ELSE /\ trace' = trace \o Called(Op("lstat", remote_p, st))
                              \o Updated
                 /\ PutAdvance
PutDir_MkdirOnError(relative_p, remote_p) ==
    \E st \in LstatOutcomes(remote_p) :
       \/ /\ st = "ok"
          /\ ops' = Append(ops, Op("lstat", remote_p, st))
          /\ trace' = trace \o Called(Op("lstat", remote_p, st)) \o Updated
          /\ UNCHANGED <<rfs, events>>
          /\ PutAdvance
       \/ /\ st # "ok"
          /\ events' = Emit("MKDIR", relative_p)
          /\ \E mk \in MkdirOutcomes(remote_p) :
               /\ ops' = ops \o <<Op("lstat", remote_p, st),
                                  MkdirOp(remote_p, mk)>>
               /\ trace' = trace \o Called(Op("lstat", remote_p, st))
                                 \o Printed("MKDIR", relative_p)
                                 \o Called(MkdirOp(remote_p, mk))
                                 \o (IF mk = "ok" THEN Updated ELSE <<>>)
               /\ IF mk = "ok"
                    THEN rfs' = (remote_p :> "dir") @@ rfs /\ PutAdvance
                    ELSE rfs' = rfs /\ PutAbort

\* lines 110-119: a directory item
PutDir(relative_p, remote_p) ==
    \E st \in LstatOutcomes(remote_p) :
       \/ /\ st = "ok"
          /\ ops' = Append(ops, Op("lstat", remote_p, st))
          /\ trace' = trace \o Called(Op("lstat", remote_p, st)) \o Updated
          /\ UNCHANGED <<rfs, events>>
          /\ PutAdvance
       \/ /\ st = "notfound"
          /\ events' = Emit("MKDIR", relative_p)
          /\ \E mk \in MkdirOutcomes(remote_p) :
               /\ ops' = ops \o <<Op("lstat", remote_p, st),
                                  MkdirOp(remote_p, mk)>>
               /\ trace' = trace \o Called(Op("lstat", remote_p, st))
                                 \o Printed("MKDIR", relative_p)
                                 \o Called(MkdirOp(remote_p, mk))
                                 \o (IF mk = "ok" THEN Updated ELSE <<>>)
               /\ IF mk = "ok"
                    THEN rfs' = (remote_p :> "dir") @@ rfs /\ PutAdvance
                    ELSE rfs' = rfs /\ PutAbort
       \/ /\ st = "error"
          /\ ops' = Append(ops, Op("lstat", remote_p, st))
          /\ trace' = trace \o Called(Op("lstat", remote_p, st))
          /\ UNCHANGED <<rfs, events>>
          /\ PutAbort

\* mutant of PutFile: a failed upload is swallowed and the loop goes on
PutFile_KeepsGoing(relative_p, remote_p) ==
    /\ events' = Emit("PUT", relative_p)
    /\ \E pt \in PutOutcomes(remote_p) :
         /\ ops' = Append(ops, Op("put", remote_p, pt))
         /\ trace' = trace \o Printed("PUT", relative_p)
                           \o Called(Op("put", remote_p, pt)) \o Updated
         /\ rfs' = IF pt = "ok" THEN (remote_p :> "file") @@ rfs ELSE rfs
         /\ PutAdvance

\* mutant of PutFile: a path that is on the server already is not
\* written again
PutFile_KeepsExisting(relative_p, remote_p) ==
    /\ events' = Emit("PUT", relative_p)
    /\ \E pt \in PutOutcomes(remote_p) :
         /\ ops' = Append(ops, Op("put", remote_p, pt))
         /\ trace' = trace \o Printed("PUT", relative_p)
                           \o Called(Op("put", remote_p, pt))
                           \o (IF pt = "ok" THEN Updated ELSE <<>>)
         /\ IF pt = "ok"
              THEN /\ rfs' = IF remote_p \in DOMAIN rfs
                               THEN rfs ELSE (remote_p :> "file") @@ rfs
                   /\ PutAdvance
              ELSE rfs' \in PutFailureLeaves(remote_p) /\ PutAbort

\* mutant of PutFile: the notice printed once the upload is through
PutFile_PrintAfter(relative_p, remote_p) ==
    /\ events' = Emit("PUT", relative_p)
    /\ \E pt \in PutOutcomes(remote_p) :
         /\ ops' = Append(ops, Op("put", remote_p, pt))
         /\ trace' = trace \o Called(Op("put", remote_p, pt))
                           \o Printed("PUT", relative_p)
                           \o (IF pt = "ok" THEN Updated ELSE <<>>)
         /\ IF pt = "ok"
              THEN rfs' = (remote_p :> "file") @@ rfs /\ PutAdvance
              ELSE rfs' \in PutFailureLeaves(remote_p) /\ PutAbort

\* lines 120-126: any other item
PutFile(relative_p, remote_p) ==
    /\ events' = Emit("PUT", relative_p)
    /\ \E pt \in PutOutcomes(remote_p) :
         /\ ops' = Append(ops, Op("put", remote_p, pt))
         /\ trace' = trace \o Printed("PUT", relative_p)
                           \o Called(Op("put", remote_p, pt))
                           \o (IF pt = "ok" THEN Updated ELSE <<>>)
         /\ IF pt = "ok"
              THEN rfs' = (remote_p :> "file") @@ rfs /\ PutAdvance
              ELSE rfs' \in PutFailureLeaves(remote_p) /\ PutAbort

\* one iteration of `for p in lp` (lines 104-128)
PutItem ==
    /\ cmd \in PutCallers /\ pc = "put" /\ idx <= Len(lp)
    /\ LET p == Resolve(lp[idx])
           relative_p == RelativeTo(p, PutRoot)
           remote_p == Join(Root, relative_p)
       IN  IF Outside(p)
             THEN \* p.relative_to(r.resolve()) raises ValueError
                  /\ UNCHANGED <<rfs, ops, events, trace>>
                  /\ PutAbort
             ELSE IF is_dir(p) THEN PutDir(relative_p, remote_p)
                              ELSE PutFile(relative_p, remote_p)
    /\ UNCHANGED <<args, solo, api, lfs, e, walk, scan, conn, tasks>>

\* the caller calls put again, with the same arguments on the same
\* Server, after a call that raised or returned
Put(res, store, nops) == [res |-> res, rfs |-> store, nops |-> nops]
PutAgain ==
    /\ cmd = "reput" /\ pc \in {"done", "raised"} /\ Len(puts) < MaxPuts
    /\ puts' = Append(puts, Put(IF err THEN "raised" ELSE "ok", rfs, Len(ops)))
    /\ pc' = "transfer"
    /\ err' = FALSE
    /\ idx' = 0
    /\ UNCHANGED <<args, main, cfg, logs, api, lfs, rfs, e, walk, scan, conn,
                   ops, sink>>

----------------------------------------------------------------------------
(* cr/cli.py Download.run, up to the connection *)

\* lines 588-592
DefaultDownloadExclude ==
    { <<NameCache>>, <<NameStatic>>, <<NameWp, NameCache>> }

\* lines 583-593: an empty --exclude is replaced by the default list
DownloadStart ==
    /\ cmd = "download" /\ pc = "start"
    /\ e' = IF e = {} THEN DefaultDownloadExclude ELSE e
    /\ pc' = "password"
    /\ UNCHANGED <<args, solo, api, err, lfs, rfs, walk, scan, idx, conn, ops, sink>>

----------------------------------------------------------------------------
(* cr/ssh.py Server.get *)

\* mutant of S_ISDIR: every path that has a mode taken for a directory
S_ISDIR_AnyMode(mode) == mode # "none"
S_ISDIR(mode) == mode = "dir"
S_ISREG(mode) == mode = "file"

\* the st_mode the server reports for a path ("none": no mode at all)
StMode(p) == rfs[p]

TransferPath(relative, remote, mode) ==
    [relative |-> relative, remote |-> remote, remote_st_mode |-> mode]

\* sftp.listdir_attr: the entries in the server's order, or a failure
Listing(res, items) == [res |-> res, items |-> items]
ListdirOutcomes(sp) ==
    (IF IsDir(rfs, sp)
        THEN { Listing("ok", ls) : ls \in Perms(Children(rfs, sp)) } ELSE {})
    \cup { Listing("error", <<>>) }

\* os.makedirs(p, exist_ok=True): creates p and its missing ancestors, fails
\* when one of them exists and is no directory, or for a reason of its own
MakedirsOutcomes(p) ==
    (IF \A q \in Parents(p) \cup {p} : q \in DOMAIN lfs => lfs[q] = "dir"
        THEN {"ok"} ELSE {}) \cup {"error"}
Makedirs(p) == [q \in Parents(p) \cup {p} |-> "dir"] @@ lfs

\* sftp.get writes the local file, which needs its directory
GetOutcomes(remote, local) ==
    (IF remote \in DOMAIN rfs /\ IsDir(lfs, Parent(local)) /\ ~IsDir(lfs, local)
        THEN {"ok"} ELSE {}) \cup {"error"}
GetFailureLeaves(local) ==
    {lfs} \cup
    (IF IsDir(lfs, Parent(local)) /\ ~IsDir(lfs, local)
        THEN { (local :> "partial") @@ lfs } ELSE {})

\* mutant of ScanSkipsDir: the exclude list forgotten
ScanSkipsDir_NamesOnly(relpath, name) ==
    StartsWithDot(name) \/ name \in EXCLUDE_DIRNAMES

\* mutant of ScanSkipsDir: cache, static and media pruned by name
ScanSkipsDir_RemoteNames(relpath, name) ==
    \/ relpath \in e
    \/ StartsWithDot(name)
    \/ name \in EXCLUDE_DIRNAMES \cup {NameCache, NameStatic, NameMedia}

\* lines 184-188: the directories walk_remote prunes
ScanSkipsDir(relpath, name) ==
    \/ relpath \in e
    \/ StartsWithDot(name)
    \/ name \in EXCLUDE_DIRNAMES

\* line 200: the files walk_remote leaves out
ScanSkipsFile(relpath) == relpath \in e

\* the scan is over when nothing listed is left to look at
ScanNext(rest) == IF rest = <<>> THEN "getroot" ELSE "scan"

\* lines 145-224: open_sftp, the scan task, lstat of the root, and either
\* the first listdir_attr of walk_remote(s) or the one entry of a file
GetBegin ==
    /\ cmd \in GetCommands /\ pc = "transfer"
    /\ \E o \in OpenSftpOutcomes :
         /\ client' = o.client
         /\ sftp' = o.sftp
         /\ conns' = conns \o o.log
         /\ IF ~o.ok
           THEN /\ UNCHANGED <<ops, scan, trace>>
                /\ Raise
           ELSE /\ o.sftp
                /\ \E st \in LstatOutcomes(Root) :
                     IF st # "ok"
                       THEN /\ ops' = Append(ops, Op("lstat", Root, st))
                            /\ trace' = trace \o TaskAdded
                                 \o Called(Op("lstat", Root, st))
                            /\ UNCHANGED scan
                            /\ Raise
                       ELSE IF StMode(Root) # "none" /\ S_ISDIR(StMode(Root))
                         THEN \E ls \in ListdirOutcomes(Root) :
                                /\ ops' = ops \o <<Op("lstat", Root, st),
                                                   Op("listdir", Root, ls.res)>>
                                /\ trace' = trace \o TaskAdded
                                     \o Called(Op("lstat", Root, st))
                                     \o Called(Op("listdir", Root, ls.res))
                                /\ ltp' = <<>>
                                /\ IF ls.res = "error"
                                     THEN work' = work /\ Raise
                                     ELSE /\ work' = ls.items
                                          /\ pc' = ScanNext(ls.items)
                                          /\ err' = err
                         ELSE /\ ops' = Append(ops, Op("lstat", Root, st))
                              /\ trace' = trace \o TaskAdded
                                   \o Called(Op("lstat", Root, st))
                              /\ ltp' = <<TransferPath(<<NameWww>>, Root,
                                                       StMode(Root))>>
                              /\ work' = work
                              /\ pc' = "getroot"
                              /\ err' = err
    /\ UNCHANGED <<args, solo, api, lfs, rfs, e, walk, idx, calls, bars>>

\* mutants of ScanDir: the local directory made while scanning, and the
\* listed items queued behind the pending ones (breadth first)
ScanDir_MkdirNow(fullpath, tp) ==
    /\ ltp' = Append(ltp, tp)
    /\ lfs' = Makedirs(tp.relative)
    /\ \E ls \in ListdirOutcomes(fullpath) :
         /\ ops' = ops \o <<Op("makedirs", tp.relative, "ok"),
                            Op("listdir", fullpath, ls.res)>>
         /\ trace' = trace \o Called(Op("makedirs", tp.relative, "ok"))
                           \o Called(Op("listdir", fullpath, ls.res))
         /\ IF ls.res = "error"
              THEN work' = work /\ Raise
              ELSE /\ work' = ls.items \o Tail(work)
                   /\ pc' = ScanNext(ls.items \o Tail(work))
                   /\ err' = err
ScanDir_BreadthFirst(fullpath, tp) ==
    /\ ltp' = Append(ltp, tp)
    /\ lfs' = lfs
    /\ \E ls \in ListdirOutcomes(fullpath) :
         /\ ops' = Append(ops, Op("listdir", fullpath, ls.res))
         /\ trace' = trace \o Called(Op("listdir", fullpath, ls.res))
         /\ IF ls.res = "error"
              THEN work' = work /\ Raise
              ELSE /\ work' = Tail(work) \o ls.items
                   /\ pc' = ScanNext(Tail(work) \o ls.items)
                   /\ err' = err

\* lines 191-195 and 162: a directory that is kept is appended, and the
\* recursive call lists it at once; its items are looked at before the
\* remaining items of the enclosing calls
ScanDir(fullpath, tp) ==
    /\ ltp' = Append(ltp, tp)
    /\ lfs' = lfs
    /\ \E ls \in ListdirOutcomes(fullpath) :
         /\ ops' = Append(ops, Op("listdir", fullpath, ls.res))
         /\ trace' = trace \o Called(Op("listdir", fullpath, ls.res))
         /\ IF ls.res = "error"
              THEN work' = work /\ Raise
              ELSE /\ work' = ls.items \o Tail(work)
                   /\ pc' = ScanNext(ls.items \o Tail(work))
                   /\ err' = err

\* an item that needs no listing: appended or not, then the next item
ScanLeaf(keep, tp) ==
    /\ ltp' = IF keep THEN Append(ltp, tp) ELSE ltp
    /\ work' = Tail(work)
    /\ pc' = ScanNext(Tail(work))
    /\ UNCHANGED <<lfs, ops, err, trace>>

\* one iteration of `for item in items` of walk_remote (lines 163-204)
ScanItem ==
    /\ cmd \in GetCommands /\ pc = "scan" /\ work # <<>>
    /\ LET relpath == Head(work)
           fullpath == Join(Root, relpath)
           filename == BaseName(relpath)
           mode == StMode(fullpath)
           tp == TransferPath(relpath, fullpath, mode)
       IN  IF mode = "none" THEN ScanLeaf(TRUE, tp)
           ELSE IF S_ISDIR(mode)
             THEN IF ScanSkipsDir(relpath, filename)
                    THEN ScanLeaf(FALSE, tp)
                    ELSE ScanDir(fullpath, tp)
           ELSE IF S_ISREG(mode) THEN ScanLeaf(~ScanSkipsFile(relpath), tp)
           ELSE ScanLeaf(FALSE, tp)
    /\ UNCHANGED <<args, solo, api, rfs, e, walk, idx, conn, bars>>

\* lines 227-232: the download task and os.makedirs(r, exist_ok=True)
GetMkRoot ==
    /\ cmd \in GetCommands /\ pc = "getroot"
    /\ tasks' = AddTask(Len(ltp))
    /\ \E mk \in MakedirsOutcomes(Root) :
         /\ ops' = Append(ops, Op("makedirs", Root, mk))
         /\ trace' = trace \o TaskAdded \o Called(Op("makedirs", Root, mk))
         /\ IF mk = "ok"
              THEN /\ lfs' = Makedirs(Root)
                   /\ idx' = 1
                   /\ IF ltp = <<>> THEN Return ELSE pc' = "get" /\ err' = err
              ELSE /\ UNCHANGED <<lfs, idx>>
                   /\ Raise
    /\ UNCHANGED <<args, solo, api, rfs, e, walk, scan, conn, events, advanced>>

\* after entry idx: progress.update, then the next entry or the end
GetAdvance ==
    /\ idx' = idx + 1
    /\ advanced' = Advance
    /\ IF idx = Len(ltp) THEN Return ELSE pc' = "get" /\ err' = err

\* an exception in the body of the loop
GetAbort ==
    /\ UNCHANGED <<idx, advanced>>
    /\ Raise

\* mutant of EntryKind: an entry without a mode taken for a file
EntryKind_NoneAsFile(tp) ==
    IF tp.remote_st_mode = "none" THEN "get"
    ELSE IF S_ISDIR(tp.remote_st_mode) THEN "mkdir"
    ELSE IF S_ISREG(tp.remote_st_mode) THEN "get"
    ELSE "pass"

\* the if / elif chain of lines 235-244
EntryKind(tp) ==
    IF tp.remote_st_mode = "none" THEN "skip"
    ELSE IF S_ISDIR(tp.remote_st_mode) THEN "mkdir"
    ELSE IF S_ISREG(tp.remote_st_mode) THEN "get"
    ELSE "pass"

\* one iteration of `for tp in ltp` (lines 233-250)
GetItem ==
    /\ cmd \in GetCommands /\ pc = "get" /\ idx <= Len(ltp)
    /\ LET tp == ltp[idx]
           local == tp.relative
           kind == EntryKind(tp)
       IN  \/ /\ kind = "skip"
              /\ events' = Emit("SKIP", tp.relative)
              /\ trace' = trace \o Printed("SKIP", tp.relative) \o Updated
              /\ UNCHANGED <<lfs, ops>>
              /\ GetAdvance
           \/ /\ kind = "mkdir"
              /\ events' = Emit("MKDIR", tp.relative)
              /\ \E mk \in MakedirsOutcomes(local) :
                   /\ ops' = Append(ops, Op("makedirs", local, mk))
                   /\ trace' = trace \o Printed("MKDIR", tp.relative)
                                     \o Called(Op("makedirs", local, mk))
                                     \o (IF mk = "ok" THEN Updated ELSE <<>>)
                   /\ IF mk = "ok"
                        THEN lfs' = Makedirs(local) /\ GetAdvance
                        ELSE lfs' = lfs /\ GetAbort
           \/ /\ kind = "get"
              /\ events' = Emit("GET", tp.relative)
              /\ \E gt \in GetOutcomes(tp.remote, local) :
                   /\ ops' = Append(ops, Op("get", tp.remote, gt))
                   /\ trace' = trace \o Printed("GET", tp.relative)
                                     \o Called(Op("get", tp.remote, gt))
                                     \o (IF gt = "ok" THEN Updated ELSE <<>>)
                   /\ IF gt = "ok"
                        THEN lfs' = (local :> "file") @@ lfs /\ GetAdvance
                        ELSE lfs' \in GetFailureLeaves(local) /\ GetAbort
           \/ /\ kind = "pass"
              /\ UNCHANGED <<lfs, ops, events>>
              /\ trace' = trace \o Updated
              /\ GetAdvance
    /\ UNCHANGED <<args, solo, api, rfs, e, walk, scan, conn, tasks>>

----------------------------------------------------------------------------
(* Initial states *)

RemoteStores(f) == {Nothing, OnlyRoot, f}

\* main has not been entered
NoMain == ran = "none" /\ exc = "none" /\ updates = 0 /\ exit_code = -1

\* api_poll_logs as it starts (api.py 512-513)
NoLogs == since = 0 /\ fetches = <<>> /\ shown = <<>>

\* config is not called
NoConfig ==
    /\ ini = ("cr" :> <<>>) /\ environ = <<>>
    /\ query = Query("none", "cr", "None") /\ value = "unset"

InitCommon ==
    /\ pc = "start"
    /\ err = FALSE
    /\ stack = <<>>
    /\ returned = <<>>
    /\ work = <<>>
    /\ ltp = <<>>
    /\ idx = 0
    /\ client = FALSE
    /\ sftp = FALSE
    /\ ops = <<>>
    /\ events = <<>>
    /\ tasks = <<>>
    /\ advanced = 0
    /\ trace = <<>>
    /\ conns = <<>>
    /\ calls = <<>>
    /\ polled = <<>>
    /\ api_task = "none"
    /\ poll_exc = "none"
    /\ NoMain
    /\ NoConfig
    /\ NoLogs
    /\ puts = <<>>

\* the local trees of a put that is called again: root/{a/{c}} and
\* root/{a/{c}, b -> a/c}; and a remote store that has the root and, as
\* directories, the top entries of the local tree
RerunWorlds ==
    { World((Root :> "dir") @@ (<<NameA>> :> "dir")
              @@ (<<NameA, NameC>> :> "file"), NoLinks),
      LinkToFile }
RootOf(f) == [p \in { q \in DOMAIN f : Len(q) <= 1 } |-> "dir"]

\* the paths a configuration can name: config_path_list and git_ignored
\* resolve each of them
ConfigPaths == { Resolve(p) : p \in DOMAIN lfs }

\* cr upload --path <directory or file>, cr deploy --path <directory>
InitUpload ==
    /\ cmd \in {"upload", "deploy"}
    /\ progress = TRUE
    /\ \E w \in (IF cmd = "deploy" THEN DeployWorlds ELSE LocalWorlds) :
         lfs = w.fs /\ links = w.links
    /\ listing = NoListing
    /\ git = NoGit /\ deploy_exclude = {}
    /\ argpath \in {Root} \cup
         { p \in DOMAIN lfs : cmd = "upload" /\ Len(p) = 1 /\ lfs[p] = "file" }
    /\ rfs \in (IF cmd = "upload" THEN RemoteStores(lfs) ELSE {OnlyRoot})
    /\ e \in (IF argpath = Root THEN SubsetsUpTo(ConfigPaths, MaxSet) ELSE {{}})
    /\ i \in (IF argpath = Root THEN SubsetsUpTo(ConfigPaths, MaxSet) ELSE {{}})
    /\ lp = <<>>
    /\ InitCommon

\* Server.put(lp, r, s, progress) with any list of paths below r
InitPut ==
    /\ cmd = "put"
    /\ progress \in BOOLEAN
    /\ \E w \in LocalWorlds : lfs = w.fs /\ links = w.links
    /\ listing = NoListing
    /\ git = NoGit /\ deploy_exclude = {}
    /\ argpath = Root
    /\ rfs \in RemoteStores(lfs)
    /\ e = {}
    /\ i = {}
    /\ lp \in UNION { Perms(x) : x \in SUBSET (DOMAIN lfs \ {Root}) }
    /\ InitCommon

RemoteModes == {"dir", "file", "lnk", "none"}

\* /www/{a.txt, cache/{b.txt}, static/{c.css}}
ScenarioTree ==
    (Root :> "dir") @@ (<<NameATxt>> :> "file")
    @@ (<<NameCache>> :> "dir") @@ (<<NameCache, NameBTxt>> :> "file")
    @@ (<<NameStatic>> :> "dir") @@ (<<NameStatic, NameCCss>> :> "file")

\* /www/{media/, a/{cache/{b.txt}}}
NestedTree ==
    (Root :> "dir") @@ (<<NameMedia>> :> "dir") @@ (<<NameA>> :> "dir")
    @@ (<<NameA, NameCache>> :> "dir")
    @@ (<<NameA, NameCache, NameBTxt>> :> "file")

RemoteTrees ==
    UNION { Typings(t, {"dir"}, RemoteModes) : t \in TreesUpTo(MaxNodes) }
    \cup Typings({Root}, RemoteModes, {})
    \cup {Nothing, ScenarioTree, NestedTree}

\* cr download --remote <directory or file> [--exclude ...], and
\* Server.get(s, r, e, progress)
InitGet ==
    /\ cmd \in GetCommands
    /\ progress \in (IF cmd = "download" THEN {TRUE} ELSE BOOLEAN)
    /\ rfs \in RemoteTrees
    /\ lfs = Nothing
    /\ links = NoLinks
    /\ listing = NoListing
    /\ git = NoGit /\ deploy_exclude = {}
    /\ argpath = Root
    /\ e \in SubsetsUpTo(DOMAIN rfs \ {Root}, MaxSet)
    /\ i = {}
    /\ lp = <<>>
    /\ InitCommon

\* Server(host, user, passwd), then connect, open_sftp and close as the
\* caller likes; no files are involved
InitSession ==
    /\ cmd = "session"
    /\ progress = FALSE
    /\ lfs = Nothing
    /\ links = NoLinks
    /\ listing = NoListing
    /\ git = NoGit /\ deploy_exclude = {}
    /\ rfs = Nothing
    /\ argpath = Root
    /\ e = {}
    /\ i = {}
    /\ lp = <<>>
    /\ pc = "idle"
    /\ err = FALSE
    /\ stack = <<>>
    /\ returned = <<>>
    /\ work = <<>>
    /\ ltp = <<>>
    /\ idx = 0
    /\ client = FALSE
    /\ sftp = FALSE
    /\ ops = <<>>
    /\ events = <<>>
    /\ tasks = <<>>
    /\ advanced = 0
    /\ trace = <<>>
    /\ conns = <<>>
    /\ calls = <<>>
    /\ polled = <<>>
    /\ api_task = "none"
    /\ poll_exc = "none"
    /\ NoMain
    /\ NoConfig
    /\ NoLogs
    /\ puts = <<>>

\* the list of paths to copy, built for a directory as upload and deploy
\* build it
InitFiles ==
    /\ cmd = "files"
    /\ progress = FALSE
    /\ \E w \in LocalWorlds : lfs = w.fs /\ links = w.links
    /\ listing = NoListing
    /\ git \in GitRuns(DOMAIN lfs \ {Root})
    /\ deploy_exclude \in SubsetsUpTo(ConfigPaths, MaxSet)
    /\ argpath = Root
    /\ rfs = Nothing
    /\ e = {}
    /\ i = {}
    /\ lp = <<>>
    /\ InitCommon

\* paths_to_deploy(r, e, i) called more than once on one filesystem
InitWalk ==
    /\ cmd = "walk"
    /\ progress = FALSE
    /\ \E w \in LocalWorlds : lfs = w.fs /\ links = w.links
    /\ listing \in Listings(lfs)
    /\ git = NoGit /\ deploy_exclude = {}
    /\ argpath = Root
    /\ rfs = Nothing
    /\ e \in SubsetsUpTo(ConfigPaths, MaxSet)
    /\ i \in SubsetsUpTo(ConfigPaths, MaxSet)
    /\ lp = <<>>
    /\ pc = "idle"
    /\ err = FALSE
    /\ stack = <<>>
    /\ returned = <<>>
    /\ work = <<>>
    /\ ltp = <<>>
    /\ idx = 0
    /\ client = FALSE
    /\ sftp = FALSE
    /\ ops = <<>>
    /\ events = <<>>
    /\ tasks = <<>>
    /\ advanced = 0
    /\ trace = <<>>
    /\ conns = <<>>
    /\ calls = <<>>
    /\ polled = <<>>
    /\ api_task = "none"
    /\ poll_exc = "none"
    /\ NoMain
    /\ NoConfig
    /\ NoLogs
    /\ puts = <<>>

\* Server.put(lp, r, s) on a list of paths below r, which the caller
\* calls again when it has ended
InitReput ==
    /\ cmd = "reput"
    /\ progress = FALSE
    /\ \E w \in RerunWorlds : lfs = w.fs /\ links = w.links
    /\ listing = NoListing
    /\ git = NoGit /\ deploy_exclude = {}
    /\ argpath = Root
    /\ rfs \in RemoteStores(lfs) \cup {RootOf(lfs)}
    /\ e = {}
    /\ i = {}
    /\ lp \in UNION { Perms(x) : x \in SUBSET (DOMAIN lfs \ {Root}) }
    /\ pc = "start"
    /\ err = FALSE
    /\ stack = <<>>
    /\ returned = <<>>
    /\ work = <<>>
    /\ ltp = <<>>
    /\ idx = 0
    /\ client = FALSE
    /\ sftp = FALSE
    /\ ops = <<>>
    /\ events = <<>>
    /\ tasks = <<>>
    /\ advanced = 0
    /\ trace = <<>>
    /\ conns = <<>>
    /\ calls = <<>>
    /\ polled = <<>>
    /\ api_task = "none"
    /\ poll_exc = "none"
    /\ NoMain
    /\ NoConfig
    /\ NoLogs
    /\ puts = <<Put("init", rfs, 0)>>

\* the options of one section: some of those the files can have, each
\* with one of the values
Sections(values) ==
    UNION { [o -> values] : o \in SUBSET {"token", "test_str"} }

\* config(k, w, f) on what load_config has read: the section cr, and
\* the section demo or not; w names cr, demo or a section that is not
\* there
InitConfig ==
    /\ cmd = "config"
    /\ progress = FALSE
    /\ lfs = Nothing
    /\ links = NoLinks
    /\ listing = NoListing
    /\ git = NoGit /\ deploy_exclude = {}
    /\ rfs = Nothing
    /\ argpath = Root
    /\ e = {}
    /\ i = {}
    /\ lp = <<>>
    /\ pc = "start"
    /\ err = FALSE
    /\ stack = <<>>
    /\ returned = <<>>
    /\ work = <<>>
    /\ ltp = <<>>
    /\ idx = 0
    /\ client = FALSE
    /\ sftp = FALSE
    /\ ops = <<>>
    /\ events = <<>>
    /\ tasks = <<>>
    /\ advanced = 0
    /\ trace = <<>>
    /\ conns = <<>>
    /\ calls = <<>>
    /\ polled = <<>>
    /\ api_task = "none"
    /\ poll_exc = "none"
    /\ NoMain
    /\ NoLogs
    /\ puts = <<>>
    /\ \E c \in Sections(CrValues) :
         \/ ini = ("cr" :> c)
         \/ \E d \in Sections(WebappValues) : ini = ("cr" :> c) @@ ("demo" :> d)
    /\ environ \in UNION { [n -> {"e"}] : n \in SUBSET {"CR_TOKEN", "CR_TEST_STR"} }
    /\ query \in { Query(k, w, f) : k \in Options, w \in {"cr", "demo", "junk"},
                                   f \in {"None", "fb"} }
    /\ value = "unset"

\* Webapp.api_poll_logs(progress)
InitLogs ==
    /\ cmd = "logs"
    /\ progress = TRUE
    /\ lfs = Nothing
    /\ links = NoLinks
    /\ listing = NoListing
    /\ git = NoGit /\ deploy_exclude = {}
    /\ rfs = Nothing
    /\ argpath = Root
    /\ e = {}
    /\ i = {}
    /\ lp = <<>>
    /\ InitCommon

\* cr <arguments>, as the entry point main runs it
InitMain ==
    /\ cmd = "main"
    /\ progress = FALSE
    /\ lfs = Nothing
    /\ links = NoLinks
    /\ listing = NoListing
    /\ git = NoGit /\ deploy_exclude = {}
    /\ rfs = Nothing
    /\ argpath = Root
    /\ e = {}
    /\ i = {}
    /\ lp = <<>>
    /\ InitCommon

Init ==
    \/ InitUpload \/ InitPut \/ InitGet \/ InitSession \/ InitWalk
    \/ InitFiles \/ InitMain \/ InitConfig \/ InitReput \/ InitLogs

Next ==
    \/ UploadStart
    \/ WalkStep
    \/ WalkRaise
    \/ ApiGetSftpPassword
    \/ Connect
    \/ OpenSftp
    \/ Close
    \/ ApiQueueDeploy
    \/ ApiPollTask
    \/ ApiPollTimeout
    \/ ApiPollLogs
    \/ CallStart
    \/ PutBegin
    \/ PutItem
    \/ DownloadStart
    \/ GetBegin
    \/ ScanItem
    \/ GetMkRoot
    \/ GetItem
    \/ SessionConnect
    \/ SessionOpenSftp
    \/ SessionClose
    \/ SessionTransfer
    \/ PathsToDeployCall
    \/ PathsToDeployReturn
    \/ ExcludeList
    \/ Runcli
    \/ CheckUpdate
    \/ Config
    \/ PutAgain
    \/ ApiGetLogs
    \/ ApiPollLogsOver

Spec == Init /\ [][Next]_vars

----------------------------------------------------------------------------
(* Vocabulary of the properties *)

\* the command walks args.path with paths_to_deploy
WalkCmd == cmd \in {"upload", "deploy"} /\ argpath = Root
\* ... and the walk has returned its list
WalkDone == WalkCmd /\ pc # "start" /\ stack = <<>>

Yields(x) == \E k \in 1..Len(lp) : lp[k] = x
YieldsBeneath(P) == \E k \in 1..Len(lp) : IsPrefix(P, lp[k])
ScanYieldsBeneath(P) == \E k \in 1..Len(ltp) : IsPrefix(P, ltp[k].remote)

\* x is where a symbolic link that lies outside P points
ViaLink(P, x) == \E l \in DOMAIN links : ~IsPrefix(P, l) /\ links[l].to = x

\* a directory below the root that the name rule excludes
NameExcludedDir(f, P) == P # Root /\ IsDir(f, P) /\ NameExcluded(P)

OpsNamed(names) == { k \in 1..Len(ops) : ops[k].op \in names }
Aborted == err /\ pc \in {"closing", "raised"}

----------------------------------------------------------------------------
(* C1 *)

----------------------------------------------------------------------------
(* C2 *)

----------------------------------------------------------------------------
(* C3 *)

\* no directory strictly between the root and P is excluded, by the exclude
\* list or by its name
AncestorsNotExcluded(P) ==
    \A A \in Parents(P) \ {Root} : ~is_in_path(A, e) /\ ~NameExcluded(A)

----------------------------------------------------------------------------
(* C4 *)

\* a mkdir of the path was issued before operation k
MkdirBefore(path, k) ==
    \E j \in 1..(k - 1) : ops[j].op = "mkdir" /\ ops[j].path = path

\* the item uploaded to this remote path
ItemsAt(path) ==
    { m \in 1..Len(lp) :
        /\ ~Outside(Resolve(lp[m]))
        /\ Join(Root, RelativeTo(Resolve(lp[m]), PutRoot)) = path }

\* C4 as stated: every putFile is issued into a remote directory that is
\* there or for which put has issued a mkdir before. (Remote paths are never
\* removed, so a parent that is absent now was absent at the putFile.)
C4_Original ==
    cmd \in PutCommands =>
      \A k \in OpsNamed({"put"}) :
         \/ Parent(ops[k].path) \in DOMAIN rfs
         \/ MkdirBefore(Parent(ops[k].path), k)

\* the operations that this step issues, all for item idx of put
Issued == { k \in 1..Len(ops') : k > Len(ops) }

C4_Step ==
    (cmd \in PutCommands /\ pc = "put") =>
      \A k \in Issued :
         /\ ops'[k].op = "put" =>
              ((\E m \in ItemsAt(Parent(ops'[k].path)) :
                   m < idx /\ is_dir(lp[m]))
               => \E j \in 1..(k - 1) :
                     ops'[j] \in { Op("lstat", Parent(ops'[k].path), "ok"),
                                   MkdirOp(Parent(ops'[k].path), "ok") })
         /\ ops'[k].op = "mkdir" =>
              (idx \in ItemsAt(ops'[k].path) /\ is_dir(lp[idx]))

\* C4 as amended: put issues mkdir for the directory items of its list
\* and for nothing else. The putFile of a file whose parent directory is an
\* earlier item of the list is issued after the stat of the parent found it
\* or the mkdir of it succeeded; a file whose parent is not an item (a list
\* of the file alone, a file at the top of a missing remote root) gets no
\* mkdir.
C4_MkdirOnlyForListedDirs == [][C4_Step]_vars

\* a file uploaded into a directory that the same put created just before
C4_Witness ==
    /\ cmd \in PutCommands
    /\ \E k \in OpsNamed({"put"}), j \in OpsNamed({"mkdir"}) :
         /\ j < k
         /\ ops[j].path = Parent(ops[k].path)
         /\ ops[j].res = "ok" /\ ops[k].res = "ok"

----------------------------------------------------------------------------
(* C5 *)

\* C5: in put, a stat that reports not-found is followed at once by the
\* mkdir of the same path with mode 0770, and no mkdir is issued otherwise
\* (none follows a stat that answered); a stat that fails for another
\* reason is the last operation of the call: put is aborted at that item,
\* with no mkdir for it and no second stat.
C5_MkdirIffNotFound ==
    cmd \in PutCommands =>
      /\ \A k \in OpsNamed({"lstat"}) :
           /\ ops[k].res = "notfound" =>
                /\ k < Len(ops)
                /\ ops[k + 1] \in { MkdirOp(ops[k].path, r) : r \in {"ok", "error"} }
           /\ (ops[k].res = "ok" /\ k < Len(ops)) => ops[k + 1].op # "mkdir"
           /\ ops[k].res = "error" =>
                /\ k = Len(ops)
                /\ Aborted
                /\ idx \in ItemsAt(ops[k].path)
      /\ \A k \in OpsNamed({"mkdir"}) :
           /\ k > 1
           /\ ops[k - 1] = Op("lstat", ops[k].path, "notfound")

\* a put that created one directory and was aborted by the failing stat of
\* another, with items of the list left over
C5_Witness ==
    /\ cmd \in PutCommands /\ pc = "raised"
    /\ idx < Len(lp)
    /\ \E j, k \in OpsNamed({"lstat"}) :
         /\ j < k
         /\ ops[j].res = "notfound" /\ ops[j + 1].res = "ok"
         /\ ops[k].res = "error"

----------------------------------------------------------------------------
(* C6 *)

\* a primitive that raised: in get the stat of the source has no handler,
\* in put a not-found stat is handled
Failed(o) ==
    \/ o.res = "error"
    \/ cmd \in GetCommands /\ o.res = "notfound"

\* the local path that get writes for a remote path of its list
LocalsOf(remote) ==
    { ltp[n].relative : n \in { m \in 1..Len(ltp) : ltp[m].remote = remote } }

\* what a primitive that succeeded has done is still there (a list may
\* name a file twice: the second transfer, when it fails, may leave a part
\* of the file)
EffectInPlace(o) ==
    CASE o.op = "mkdir" -> IsDir(rfs, o.path)
      [] o.op = "put" ->
           \/ IsFile(rfs, o.path)
           \/ /\ ops[Len(ops)] = Op("put", o.path, "error")
              /\ o.path \in DOMAIN rfs /\ rfs[o.path] = "partial"
      [] o.op = "makedirs" -> IsDir(lfs, o.path)
      [] o.op = "get" -> \A q \in LocalsOf(o.path) : IsFile(lfs, q)
      [] OTHER -> TRUE

\* the item of the list that operation o was issued for (0: before the loop)
ItemOf(o) ==
    IF cmd \in PutCallers THEN ItemsAt(o.path)
    ELSE IF o.op = "get"
      THEN { n \in 1..Len(ltp) : ltp[n].remote = o.path }
    ELSE IF o.op = "makedirs"
      THEN IF o.path = Root THEN {0}
           ELSE { n \in 1..Len(ltp) : ltp[n].relative = o.path }
    ELSE {0}

\* the number of primitives issued before the call that is running (put
\* may be called again)
ThisCall == IF puts = <<>> THEN 0 ELSE puts[Len(puts)].nops

\* C6: a primitive of put or get that fails is the last primitive the call
\* issues and the call is aborted at that item: nothing follows, for that
\* item or a later one; what the primitives before it did (remote
\* directories and files, local directories and files) stays.
C6_FailureAborts ==
    /\ \A k \in (ThisCall + 1)..Len(ops) :
         /\ Failed(ops[k]) =>
              /\ k = Len(ops)
              /\ Aborted
              /\ idx \in ItemOf(ops[k])
         /\ ops[k].res = "ok" => EffectInPlace(ops[k])

\* a put aborted by a failed transfer of a file with items left over, after
\* it had created a directory and uploaded a file, both still there
C6_Witness ==
    /\ cmd \in PutCommands /\ pc = "raised"
    /\ idx < Len(lp)
    /\ Len(ops) > 0 /\ ops[Len(ops)] \in { Op("put", p, "error") : p \in DOMAIN lfs }
    /\ \E j \in OpsNamed({"mkdir"}), k \in OpsNamed({"put"}) :
         /\ ops[j].res = "ok" /\ IsDir(rfs, ops[j].path)
         /\ ops[k].res = "ok" /\ IsFile(rfs, ops[k].path)

----------------------------------------------------------------------------
(* C7 *)

ScanOps == {"lstat", "listdir"}
LocalOps == {"makedirs", "get"}

C7_Order ==
    /\ cmd \in GetCommands =>
         /\ \A a \in OpsNamed(ScanOps), b \in OpsNamed(LocalOps) : a < b
         /\ OpsNamed(LocalOps) = {} => lfs = Nothing
         /\ pc \in {"start", "password", "connect", "open_sftp", "transfer",
                    "scan"} => OpsNamed(LocalOps) = {}
         /\ (Len(ops) > 0 /\ ops[Len(ops)].op \in ScanOps
               /\ Failed(ops[Len(ops)]))
            => (Aborted /\ lfs = Nothing /\ idx = 0)
    /\ cmd \in {"upload", "deploy"} =>
         /\ (client \/ sftp \/ ops # <<>>) =>
              (pc \notin {"start", "walk"} /\ stack = <<>>)
         /\ (pc = "raised" /\ stack # <<>>) =>
              (ops = <<>> /\ ~client /\ ~sftp)

C7_Step ==
    /\ (cmd \in {"upload", "deploy"} /\ pc \in {"start", "walk"}) =>
         (rfs' = rfs /\ ops' = ops /\ client' = client /\ sftp' = sftp)
    /\ (cmd \in GetCommands /\ pc \in {"transfer", "scan"}) => lfs' = lfs

\* C7: in get every stat and listing of the scan is issued before the first
\* local directory creation or download, and no step of the scan changes the
\* local filesystem; in upload and deploy no step of the walk connects or
\* touches the remote store, and the connection is there only once the walk
\* is over. A scan that fails leaves the local filesystem as it was, a walk
\* that fails leaves the remote store as it was.
C7_TwoPhase == [](C7_Order) /\ [][C7_Step]_vars

\* a scan that had already queued entries when a listing failed: the call
\* is aborted and nothing local exists
C7_Witness ==
    /\ cmd \in GetCommands /\ Aborted
    /\ Len(ltp) > 0
    /\ Len(ops) > 2 /\ ops[Len(ops)].op = "listdir" /\ ops[Len(ops)].res = "error"
    /\ lfs = Nothing

----------------------------------------------------------------------------
(* C8 *)

\* an earlier operation created the local directory
MadeBefore(dir, k) ==
    \E j \in 1..(k - 1) : ops[j] = Op("makedirs", dir, "ok")

\* C8: in the scan list a directory comes before every entry beneath it,
\* and the entries beneath it follow it without a gap; in get the local
\* directory of an entry's parent is created before the entry itself is
\* created or downloaded.
C8_DepthFirstOrder ==
    cmd \in GetCommands =>
      /\ \A k, m \in 1..Len(ltp) :
           (k # m /\ IsPrefix(ltp[k].relative, ltp[m].relative)) =>
              /\ k < m
              /\ \A j \in k..m : IsPrefix(ltp[k].relative, ltp[j].relative)
      /\ \A k \in OpsNamed({"makedirs"}) :
           ops[k].path # Root => MadeBefore(Parent(ops[k].path), k)
      /\ \A k \in OpsNamed({"get"}) :
           \A q \in LocalsOf(ops[k].path) : MadeBefore(Parent(q), k)

\* a finished get of a tree with a file in a directory and something next
\* to that directory, all of it downloaded
C8_Witness ==
    /\ cmd \in GetCommands /\ pc = "done" /\ ~err
    /\ \E k, m, n \in 1..Len(ltp) :
         /\ ltp[k].remote_st_mode = "dir" /\ ltp[m].remote_st_mode = "file"
         /\ Parent(ltp[m].relative) = ltp[k].relative
         /\ Len(ltp[n].relative) = 1 /\ n # k
         /\ IsFile(lfs, ltp[m].relative)

----------------------------------------------------------------------------
(* C9 *)

\* C9: a remote directory below the root whose relative path is in the
\* exclude list is never listed, no local directory is made for it and
\* nothing at or beneath it is downloaded or exists locally; the download
\* of /www/{a.txt, cache/{b.txt}, static/{c.css}} with the default excludes
\* ends with a.txt as the only download and the only local entry.
C9_ExcludedNeverTouched ==
    /\ cmd \in GetCommands =>
         \A P \in e :
            (P # Root /\ IsDir(rfs, P)) =>
               /\ \A k \in 1..Len(ops) :
                    ops[k].op \in {"listdir", "makedirs", "get"}
                       => ~IsPrefix(P, ops[k].path)
               /\ \A q \in DOMAIN lfs : ~IsPrefix(P, q)
               /\ ~ScanYieldsBeneath(P)
    /\ (cmd = "download" /\ rfs = ScenarioTree /\ e = DefaultDownloadExclude
          /\ pc = "done") =>
         /\ lfs = (Root :> "dir") @@ (<<NameATxt>> :> "file")
         /\ { ops[k] : k \in OpsNamed({"get"}) } = { Op("get", <<NameATxt>>, "ok") }
         /\ { ops[k].path : k \in OpsNamed({"makedirs"}) } = {Root}
         /\ { ops[k].path : k \in OpsNamed({"listdir"}) } = {Root}

\* the download of the scenario tree with nothing given to --exclude, done
C9_Witness ==
    /\ cmd = "download" /\ pc = "done" /\ ~err
    /\ rfs = ScenarioTree
    /\ e = DefaultDownloadExclude
    /\ IsFile(lfs, <<NameATxt>>)

----------------------------------------------------------------------------
(* C10 *)

NoMode(k) == ltp[k].remote_st_mode = "none"

\* the scan has looked at the remote path: its directory was listed and it
\* is not waiting in the work list
Scanned(p) ==
    /\ \E k \in 1..Len(ops) : ops[k] = Op("listdir", Parent(p), "ok")
    /\ p \notin SeqToSet(work)

\* C10: an entry without a stat mode that the scan has looked at is in the
\* scan list (also when the exclude list names it) and the download task
\* counts the whole list; in the transfer no download and no local path is
\* made for it, the call is never aborted at it, and once the loop is past
\* it a SKIP notice for it has gone to the progress sink, if there is one.
C10_NoModeSkipped ==
    cmd \in GetCommands =>
      /\ \A p \in DOMAIN rfs :
           (p # Root /\ rfs[p] = "none" /\ Scanned(p)) =>
              \E k \in 1..Len(ltp) : ltp[k].remote = p /\ NoMode(k)
      /\ (rfs = (Root :> "none") /\ pc = "getroot") =>
              (Len(ltp) = 1 /\ NoMode(1))
      /\ (progress /\ pc \in {"get", "done"}) => tasks = <<Len(ltp)>>
      /\ \A k \in 1..Len(ltp) :
           NoMode(k) =>
              /\ \A n \in 1..Len(ops) :
                   /\ ops[n].op = "get" => ops[n].path # ltp[k].remote
                   /\ ops[n].op = "makedirs" => ops[n].path # ltp[k].relative
              /\ ltp[k].relative \notin DOMAIN lfs
              /\ err => idx # k
              /\ (progress /\ idx > k) =>
                   \E n \in 1..Len(events) :
                      events[n] = Notice("SKIP", ltp[k].relative)
      /\ (pc = "done" /\ ~err) => idx = Len(ltp) + 1

\* a finished get that skipped an entry without a mode, with a notice, and
\* downloaded the entry after it
C10_Witness ==
    /\ cmd \in GetCommands /\ pc = "done" /\ ~err /\ progress
    /\ \E k \in 1..Len(ltp) :
         /\ NoMode(k)
         /\ k < Len(ltp)
         /\ IsFile(lfs, ltp[k + 1].relative)
         /\ \E n \in 1..Len(events) : events[n] = Notice("SKIP", ltp[k].relative)
         /\ tasks = <<Len(ltp)>>
----------------------------------------------------------------------------
(* C11 *)

\* positions of the trace
Steps(what) == { k \in 1..Len(trace) : trace[k].what = what }
StepIs(k, what, name, path) ==
    k \in 1..Len(trace) /\ trace[k] = Step(what, name, path)
\* the relative path of item m of put, which is its remote path below s
PutRel(m) == RelativeTo(Resolve(lp[m]), PutRoot)
\* the notices of put for a path, and the primitives on it
PutNotices(q) ==
    { k \in Steps("print") : trace[k].name \in {"MKDIR", "PUT"} /\ trace[k].path = q }
PutCalls(q) == { k \in Steps("op") : trace[k].path = q }

\* C11 as stated: with a progress sink, every item put has been through
\* (file or directory, there or not on the server) has exactly one MKDIR or
\* PUT notice, printed before all of the item's remote operations, and
\* the advance comes next after the last of them; a put that ends without
\* an exception has advanced once per item.
C11_Original ==
    (cmd \in PutCommands /\ progress) =>
      /\ \A m \in 1..Len(lp) :
           (m < idx /\ Cardinality(ItemsAt(PutRel(m))) = 1) =>
              /\ Cardinality(PutNotices(PutRel(m))) = 1
              /\ PutCalls(PutRel(m)) # {}
              /\ \A p \in PutNotices(PutRel(m)), o \in PutCalls(PutRel(m)) :
                   /\ p < o
                   /\ (\A o2 \in PutCalls(PutRel(m)) : o2 <= o) =>
                        StepIs(o + 1, "advance", "update", <<>>)
      /\ (pc = "done" /\ ~err) => advanced = Len(lp)

\* what a step adds to the trace and to the primitives
NewSteps == SubSeq(trace', Len(trace) + 1, Len(trace'))
NewOps == SubSeq(ops', Len(ops) + 1, Len(ops'))

\* one step with a progress sink: the item idx of put, or a step outside
\* the loop
C11_Step ==
    (cmd \in PutCommands /\ progress) =>
      LET new == NewSteps
          notices == { k \in 1..Len(new) : new[k].what = "print" }
          advances == { k \in 1..Len(new) : new[k].what = "advance" }
      IN  /\ advanced' = advanced + Cardinality(advances)
          /\ (pc' = "done" /\ ~err') => advanced' = Len(lp)
          /\ IF pc # "put"
               THEN notices = {} /\ advances = {}
               ELSE IF Outside(Resolve(lp[idx]))
                 THEN new = <<>> /\ NewOps = <<>> /\ idx' = idx
                 ELSE
                   LET q == PutRel(idx)
                       missing == Op("lstat", q, "notfound") \in SeqToSet(NewOps)
                   IN  /\ \A k \in 1..Len(new) : new[k].what # "task"
                       /\ \A k \in notices :
                            /\ new[k].path = q
                            /\ k < Len(new)
                            /\ new[k + 1] =
                                 Step("op", IF new[k].name = "PUT"
                                              THEN "put" ELSE "mkdir", q)
                       /\ \A k \in 1..Len(new) :
                            new[k].what = "op" =>
                               /\ new[k].path = q
                               /\ new[k].name \in {"put", "mkdir"} =>
                                    (k > 1 /\ (k - 1) \in notices)
                       /\ IF is_dir(lp[idx])
                            THEN /\ new[1] = Step("op", "lstat", q)
                                 /\ IF missing
                                      THEN /\ notices = {2}
                                           /\ new[2].name = "MKDIR"
                                      ELSE notices = {}
                            ELSE /\ notices = {1}
                                 /\ new[1].name = "PUT"
                       /\ advances \subseteq {Len(new)}
                       /\ advances # {} <=> idx' = idx + 1
                       /\ advances # {} => new[Len(new) - 1].what = "op"
                       /\ idx' \in {idx, idx + 1}

\* C11 as amended: with a progress sink, a file item has exactly one PUT
\* notice, printed right before its upload; a directory item has exactly
\* one MKDIR notice if its stat reported not-found, printed after the stat
\* and right before the mkdir, and no notice at all if the stat found it;
\* every item put has been through is followed by exactly one advance,
\* right after its last operation, an item that failed by none; nothing is
\* printed or advanced outside the loop; a put that ends without an
\* exception has advanced once per item.
C11_NoticeBeforeTransfer == [][C11_Step]_vars

\* a finished put with a progress sink that went through a directory the
\* server had already (a stat, no notice), and uploaded a file
C11_Witness ==
    /\ cmd \in PutCommands /\ progress /\ pc = "done" /\ ~err
    /\ advanced = Len(lp)
    /\ \E m, n \in 1..Len(lp) :
         /\ is_dir(lp[m])
         /\ Op("lstat", PutRel(m), "ok") \in SeqToSet(ops)
         /\ PutNotices(PutRel(m)) = {}
         /\ is_file(lp[n])
         /\ Cardinality(PutNotices(PutRel(n))) = 1
----------------------------------------------------------------------------
(* C12 *)

LastCall(log) == log[Len(log)]
\* a step that is the call of that name on a Server used directly
IsCall(name) ==
    cmd = "session" /\ Len(calls') = Len(calls) + 1 /\ LastCall(calls').call = name
\* no close was called between the calls j and k
NoCloseBetween(j, k) == \A m \in (j + 1)..(k - 1) : calls[m].call # "close"

C12_Same ==
    cmd = "session" =>
      \A j, k \in 1..Len(calls) :
         (/\ j < k
          /\ calls[j].call = calls[k].call
          /\ calls[j].call \in {"connect", "open_sftp"}
          /\ calls[j].res = "ok" /\ calls[k].res = "ok"
          /\ NoCloseBetween(j, k))
         => calls[j].obj = calls[k].obj

C12_Step ==
    /\ (IsCall("connect") /\ client) =>
          /\ LastCall(calls') = Call("connect", "ok", LastObj(conns, "handshake"))
          /\ conns' = conns
          /\ client' /\ sftp' = sftp
    /\ (IsCall("open_sftp") /\ sftp) =>
          /\ LastCall(calls') = Call("open_sftp", "ok", LastObj(conns, "channel"))
          /\ conns' = conns
          /\ sftp' /\ client' = client

\* C12: while a client is held, connect returns that client and does
\* nothing to any connection object (no new SSHClient, no handshake); while
\* a channel is held, open_sftp returns that channel and opens none. All
\* successful connect calls between two closes return one object, and so do
\* all successful open_sftp calls.
C12_Idempotent == [](C12_Same) /\ [][C12_Step]_vars

\* connect twice and open_sftp twice on one Server: one handshake and one
\* channel, and each pair of calls returned the same object
C12_Witness ==
    /\ cmd = "session"
    /\ Len(calls) = 4
    /\ calls[1] = Call("connect", "ok", 1) /\ calls[2] = calls[1]
    /\ calls[3] = Call("open_sftp", "ok", 1) /\ calls[4] = calls[3]
    /\ conns = <<Conn("handshake", 1, "ok"), Conn("channel", 1, "ok")>>

----------------------------------------------------------------------------
(* C13 *)

\* a step that is Server.close, called directly or by a finally clause
IsClose ==
    \/ IsCall("close")
    \/ cmd \in CliCommands /\ pc = "closing" /\ pc' # "closing"

Closes(log) == Made(log, "close_sftp") \cup Made(log, "close_client")

C13_Once ==
    /\ \A j, k \in Closes(conns) :
         (conns[j].act = conns[k].act /\ conns[j].obj = conns[k].obj) => j = k
    /\ \A k \in Closes(conns) :
         \E j \in 1..(k - 1) :
            /\ conns[j].obj = conns[k].obj /\ conns[j].res = "ok"
            /\ conns[j].act =
                 (IF conns[k].act = "close_sftp" THEN "channel" ELSE "handshake")
    /\ \A k \in 1..Len(calls) : calls[k].call = "close" => calls[k].res = "ok"

C13_Step ==
    IsClose =>
      /\ ~client' /\ ~sftp'
      /\ conns' = conns
           \o (IF sftp THEN <<Conn("close_sftp", LastObj(conns, "channel"), "ok")>>
                       ELSE <<>>)
           \o (IF client
                 THEN <<Conn("close_client", LastObj(conns, "handshake"), "ok")>>
                 ELSE <<>>)
      /\ (~client /\ ~sftp) => conns' = conns

\* C13: close leaves the Server with neither channel nor client; it closes
\* the channel if one is held, then the client if one is held, and nothing
\* else, so that on a Server that holds nothing (never connected, or closed
\* already) it does nothing to any object; it returns normally in each of
\* these states, and no object is ever closed twice.
C13_CloseReleases == [](C13_Once) /\ [][C13_Step]_vars

\* connect, open_sftp, close and close again: the first close closed the
\* channel and the client, the second one nothing
C13_Witness ==
    /\ cmd = "session"
    /\ calls = <<Call("connect", "ok", 1), Call("open_sftp", "ok", 1),
                 Call("close", "ok", 0), Call("close", "ok", 0)>>
    /\ conns = <<Conn("handshake", 1, "ok"), Conn("channel", 1, "ok"),
                 Conn("close_sftp", 1, "ok"), Conn("close_client", 1, "ok")>>
    /\ ~client /\ ~sftp

----------------------------------------------------------------------------
(* C14 *)

\* inside the try block of a command
InTry == {"connect", "open_sftp", "transfer", "put", "scan", "getroot", "get"}
\* the command has returned or raised, or deploy is past its upload
Left == {"done", "raised", "deploy", "poll", "logs"}

\* every client that was connected and every channel that was opened has
\* been closed
AllClosed ==
    \A k \in Made(conns, "handshake") \cup Made(conns, "channel") :
       conns[k].res = "ok" =>
          \E j \in Closes(conns) :
             /\ j > k /\ conns[j].obj = conns[k].obj
             /\ conns[j].act =
                  (IF conns[k].act = "channel" THEN "close_sftp" ELSE "close_client")

C14_Left ==
    cmd \in CliCommands =>
      /\ pc \in Left => (~client /\ ~sftp /\ AllClosed)
      /\ (client \/ sftp \/ conns # <<>>) => pc \in InTry \cup {"closing"} \cup Left

C14_Step ==
    (cmd \in CliCommands /\ pc \in InTry) => pc' \in InTry \cup {"closing"}

\* C14: in deploy, upload and download the try block is left through the
\* finally clause only, so Server.close runs after a transfer that went
\* through, after a failed connect or open_sftp and after an exception of
\* put or get; once the command has returned or raised, the Server holds
\* no client and no channel and every object that was opened is closed.
C14_ClosedOnExit == [](C14_Left) /\ [][C14_Step]_vars

\* an upload that raised in the middle of the transfer: the channel and
\* the client it had opened are closed
C14_Witness ==
    /\ cmd = "upload" /\ pc = "raised"
    /\ Len(ops) > 1 /\ ops[Len(ops)].res = "error"
    /\ conns = <<Conn("handshake", 1, "ok"), Conn("channel", 1, "ok"),
                 Conn("close_sftp", 1, "ok"), Conn("close_client", 1, "ok")>>
    /\ ~client /\ ~sftp

----------------------------------------------------------------------------
(* C15 *)

\* C15 as stated: every directory strictly between the root and a path of
\* the list that paths_to_deploy returns is in the list before the path, so
\* put has gone through the directory item of the parent of every path
\* (the stat of the parent was issued) before it issues anything for it.
C15_Original ==
    WalkCmd =>
      /\ \A k \in 1..Len(lp) :
           ~Outside(lp[k]) =>
              \A A \in Parents(lp[k]) \ {Root} :
                 \E j \in 1..(k - 1) : lp[j] = A
      /\ \A k \in 1..Len(ops) :
           \A A \in Parents(ops[k].path) \ {Root} :
              \E j \in 1..(k - 1) : ops[j].op = "lstat" /\ ops[j].path = A

----------------------------------------------------------------------------
(* C16 *)

\* C16: the calls of paths_to_deploy with the same root, exclude list and
\* include list on a filesystem that does not change (the tree, its links
\* and the order of its listings) return the same list, element by element:
\* no call leaves anything behind that a later call reads.
C16_SameList ==
    cmd = "walk" =>
      /\ \A j, k \in 1..Len(returned) : returned[j] = returned[k]
      /\ (pc = "return" /\ returned # <<>>) => lp = returned[1]

C16_Step ==
    cmd = "walk" =>
      /\ <<lfs, links, listing, e, i, argpath>>' = <<lfs, links, listing, e, i, argpath>>
      /\ pc = "idle" => (lp' = <<>> /\ stack' = <<Root>>)

C16_Deterministic == [](C16_SameList) /\ [][C16_Step]_vars

\* root/{a/{c}, b -> a/c} with c included and a excluded: the second call
\* has returned, as the first, the file alone (for the link b)
C16_Witness ==
    /\ cmd = "walk" /\ pc = "idle"
    /\ lfs = LinkToFile.fs
    /\ e = { <<NameA>> }
    /\ i = { <<NameA, NameC>> }
    /\ returned = << << <<NameA, NameC>> >>, << <<NameA, NameC>> >> >>

----------------------------------------------------------------------------
(* C17 *)

\* the walk prunes no directory above the path
NotPruned(F) == \A A \in Parents(F) \ {Root} : IsDir(lfs, A) /\ KeepDir(A)

\* C17: a regular file whose name starts with "." or is one of
\* EXCLUDE_DIRNAMES is in the list of the walk that has returned, when the
\* walk prunes no directory above it and the exclude list does not match
\* its path; it is in the list of the remote scan once the scan has looked
\* at it (its directory was listed, so not pruned), when the exclude list
\* does not hold its path.
C17_FileNamesNotExcluded ==
    /\ WalkDone =>
         \A F \in DOMAIN lfs :
            (IsFile(lfs, F) /\ NameExcluded(F) /\ NotPruned(F)
               /\ ~is_in_path(F, e)) => Yields(F)
    /\ cmd \in GetCommands =>
         \A F \in DOMAIN rfs :
            (F # Root /\ IsFile(rfs, F) /\ NameExcluded(F) /\ Scanned(F)
               /\ F \notin e) => \E k \in 1..Len(ltp) : ltp[k].remote = F

\* root/{a/{venv}} with venv a file and nothing excluded by path: the
\* walk gave a and a/venv
C17_Witness ==
    /\ WalkDone
    /\ IsFile(lfs, <<NameA, NameVenv>>)
    /\ e = {} /\ i = {}
    /\ lp = << <<NameA>>, <<NameA, NameVenv>> >>

----------------------------------------------------------------------------
(* C18 *)

\* put is given the empty list: called with it, or after a walk that
\* returned it
EmptyPut == cmd \in PutCommands /\ lp = <<>> /\ (cmd = "put" \/ WalkDone)

C18_Nothing ==
    EmptyPut =>
      /\ ops = <<>> /\ events = <<>> /\ advanced = 0
      /\ \A k \in 1..Len(trace) : trace[k] = Step("task", "add_task", <<>>)
      /\ idx \in {0, 1}
      /\ idx = 0 => tasks = <<>>
      /\ idx = 1 =>
           /\ tasks = (IF progress THEN <<0>> ELSE <<>>)
           /\ pc \in {"closing", "deploy", "poll", "logs", "done", "raised"}
           /\ (cmd = "put" /\ pc = "done") => ~err

C18_Step == (cmd \in PutCommands /\ lp = <<>>) => rfs' = rfs

\* C18: put with the empty list issues no stat, no mkdir and no upload,
\* prints no notice and advances nothing; it leaves the remote store as it
\* is, and what the progress sink gets is the one task, of total 0, that is
\* added once the channel is open, after which put returns.
C18_EmptyList == [](C18_Nothing) /\ [][C18_Step]_vars

\* put was called with the empty list and a progress sink and has returned
C18_Witness ==
    /\ cmd = "put" /\ progress /\ lp = <<>> /\ pc = "done" /\ ~err
    /\ sftp
    /\ tasks = <<0>>

----------------------------------------------------------------------------
(* C19 *)

\* git is not on the PATH, or it ran and exited with an error
GitFails == git.found = "missing" \/ (git.found = "found" /\ git.code # 0)

C19_Empty ==
    /\ cmd = "files" =>
         \A run \in GitRuns(DOMAIN lfs \ {Root}) :
            (run.found = "missing" \/ (run.found = "found" /\ run.code # 0))
               => git_ignored(run) = Returns(<<>>)
    /\ (cmd = "files" /\ GitFails) =>
         /\ ~err /\ pc # "raised"
         /\ pc # "start" => e = deploy_exclude

C19_Step ==
    (cmd = "files" /\ GitFails /\ pc = "start") =>
       (pc' = "walk" /\ stack' = <<Root>> /\ lp' = <<>>)

\* C19: when git is not on the PATH or exits with a code other than 0,
\* git_ignored returns the empty list and raises nothing, whatever git
\* wrote; the list of paths to copy is then built at once, by a walk whose
\* exclude list holds the configured paths alone.
C19_GitFailsQuietly == [](C19_Empty) /\ [][C19_Step]_vars

\* git exited with 128 after it had written the path of a directory, and
\* nothing is excluded by the configuration: the walk is over and has
\* yielded the directory
C19_Witness ==
    /\ cmd = "files" /\ pc = "done"
    /\ git = Run("found", 128, << <<NameA>> >>)
    /\ IsDir(lfs, <<NameA>>)
    /\ e = {}
    /\ Yields(<<NameA>>)

----------------------------------------------------------------------------
(* C20 *)

\* C20 as stated: whatever statuses the API reports, the task dict that
\* api_poll_task returns has the status completed or error, never queued
\* or running, so that Deploy.run raises its deployment error for no task
\* that is still running.
C20_Original ==
    cmd = "deploy" =>
      /\ api_task \in {"none", "completed", "error"}
      /\ (api_task # "none" /\ err) => api_task = "error"

----------------------------------------------------------------------------
(* C21 *)

\* C21 as stated: the exit status of main is 0 when runcli ended without
\* an exception, 2 when it ended with KeyboardInterrupt or UserCancelError
\* and 1 after every other exception; and check_update has been called
\* exactly once when the process exits.
C21_Original ==
    (cmd = "main" /\ pc = "exited") =>
      /\ exit_code = (IF ran = "return" THEN 0
                      ELSE IF ran \in Cancels THEN 2 ELSE 1)
      /\ updates = 1

----------------------------------------------------------------------------
(* C22 *)

\* the section is there and has the option, and the value a lookup in it
\* gives
Defines(s, k) == s \in DOMAIN ini /\ optionxform(k) \in DOMAIN ini[s]
ValueIn(s, k) == Interpolated(ini[s][optionxform(k)])

\* C22 as stated: config(k, w, f) is the value of k in [w] if that
\* section is there and defines k, otherwise the value of k in [cr], also
\* when there is no section w, otherwise f; and CR_<K>, if set, is the
\* result for a secret key.
C22_Original ==
    (cmd = "config" /\ pc = "done") =>
      value = (IF query.k \in SECRETS /\ EnvName(query.k) \in DOMAIN environ
                 THEN environ[EnvName(query.k)]
               ELSE IF Defines(query.w, query.k) THEN ValueIn(query.w, query.k)
               ELSE IF Defines("cr", query.k) THEN ValueIn("cr", query.k)
               ELSE query.f)

----------------------------------------------------------------------------
(* C23 *)

\* the remote root s of get is a regular file
RootIsFile == cmd \in GetCommands /\ IsFile(rfs, Root)
\* the one entry of the plan of a file: the file under its own name
FileEntry == TransferPath(<<NameWww>>, Root, "file")

\* C23: when the remote root is a regular file, get lists no directory,
\* downloads nothing but the root, at most once, and makes nothing locally
\* but the local root and the file of the root's name in it; a get that
\* returns has the one-entry plan, has downloaded the root exactly once and
\* leaves the local root with that file alone.
C23_FileRoot ==
    RootIsFile =>
      /\ OpsNamed({"listdir"}) = {}
      /\ \A k \in OpsNamed({"get"}) : ops[k].path = Root
      /\ Cardinality(OpsNamed({"get"})) <= 1
      /\ ltp \in {<<>>, <<FileEntry>>}
      /\ DOMAIN lfs \subseteq {Root, <<NameWww>>}
      /\ (pc \in {"closing", "done"} /\ ~err) =>
           /\ ltp = <<FileEntry>>
           /\ \E k \in OpsNamed({"get"}) : ops[k] = Op("get", Root, "ok")
           /\ lfs = (Root :> "dir") @@ (<<NameWww>> :> "file")

\* a get of a file root that returned
C23_Witness ==
    /\ RootIsFile /\ cmd = "get" /\ pc = "done" /\ ~err
    /\ ops[Len(ops)] = Op("get", Root, "ok")
    /\ lfs = (Root :> "dir") @@ (<<NameWww>> :> "file")

----------------------------------------------------------------------------
(* C24 *)

\* what a put of the items from k on that goes through makes of the
\* remote store f: a directory item is made where nothing is, a file item
\* is written
RECURSIVE PutAll(_, _)
PutAll(f, k) ==
    IF k > Len(lp) THEN f
    ELSE LET remote_p == Join(Root, PutRel(k))
         IN  PutAll(IF is_dir(lp[k])
                      THEN IF remote_p \in DOMAIN f
                             THEN f ELSE (remote_p :> "dir") @@ f
                      ELSE (remote_p :> "file") @@ f,
                    k + 1)
\* the call of put before the one that runs or has ended last
Previous == puts[Len(puts)]

\* C24: a call of put that returns, be it the first or one that follows
\* calls that failed at any item, leaves the remote store as one call that
\* goes through makes it from the initial store; and a call that returns
\* after a call that returned changes nothing on the server and issues no
\* mkdir.
C24_Rerun ==
    (cmd = "reput" /\ pc = "done" /\ ~err) =>
      /\ rfs = PutAll(puts[1].rfs, 1)
      /\ Previous.res = "ok" =>
           /\ rfs = Previous.rfs
           /\ \A k \in OpsNamed({"mkdir"}) : k <= Previous.nops

\* a put that failed and left a partial file, and the put after it, which
\* returned and has written the file
C24_Witness ==
    /\ cmd = "reput" /\ pc = "done" /\ ~err
    /\ Previous.res = "raised"
    /\ \E p \in DOMAIN rfs :
         /\ p \in DOMAIN Previous.rfs
         /\ Previous.rfs[p] = "partial"
         /\ rfs[p] = "file"
    /\ \E k \in OpsNamed({"mkdir"}) : ops[k].res = "ok"

----------------------------------------------------------------------------
(* C25 *)

AllQueued == \A k \in 1..Len(polled) : polled[k] = "queued"
\* api_poll_task is running, and it has ended
Polling == cmd = "deploy" /\ pc = "poll"
Polled == cmd = "deploy" /\ pc # "poll" /\ polled # <<>>

\* at most 18 queries; every query before the last one answered queued;
\* the call has ended as soon as an answer is not queued, with that dict
\* if the answer has a status; TimeoutError if and only if the call has
\* ended on 18 answers that are all queued
C25_Bounded ==
    cmd = "deploy" =>
      /\ Len(polled) <= PollAttempts
      /\ \A k \in 1..(Len(polled) - 1) : polled[k] = "queued"
      /\ Polling => AllQueued
      /\ Polled =>
           /\ polled[Len(polled)] \in TaskStatuses \ {"queued"}
                => api_task = polled[Len(polled)]
           /\ api_task # "none"
                => (api_task = polled[Len(polled)] /\ api_task # "queued")
           /\ poll_exc = "TimeoutError"
                <=> (Len(polled) = PollAttempts /\ AllQueued)
      /\ ~Polled => poll_exc = "none"

\* a step of api_poll_task is one more query, or the end of the call
\* without a query once there are 18
C25_Step ==
    Polling =>
      \/ Len(polled') = Len(polled) + 1
      \/ Len(polled) = PollAttempts /\ polled' = polled /\ pc' # "poll"

----------------------------------------------------------------------------
(* C26 *)

\* the lines of the first n fetches, in the order received
RECURSIVE Received(_)
Received(n) == IF n = 0 THEN <<>> ELSE Received(n - 1) \o fetches[n].logs
HasEOT(b) == \E k \in 1..Len(b) : b[k].log = TextEOT

\* at most 18 fetches; a batch that is empty or has a line with \x04 is the
\* last one fetched; what was printed is every line received, once and in
\* the order received; the first fetch passes since = 0 and every later
\* one the datetime of the last line received until then
C26_Logs ==
    cmd = "logs" =>
      /\ Len(fetches) <= LogAttempts
      /\ \A k \in 1..(Len(fetches) - 1) :
           fetches[k].logs # <<>> /\ ~HasEOT(fetches[k].logs)
      /\ (pc = "start" /\ fetches # <<>>) =>
           (fetches[Len(fetches)].logs # <<>>
            /\ ~HasEOT(fetches[Len(fetches)].logs))
      /\ shown = ShownAll(Received(Len(fetches)))
      /\ \A k \in 1..Len(fetches) :
           fetches[k].since =
             (IF Received(k - 1) = <<>> THEN 0
              ELSE Received(k - 1)[Len(Received(k - 1))].datetime)

\* a step of api_poll_logs is one more fetch (or the exception of one), or
\* its return without a fetch once there are 18
C26_Step ==
    (cmd = "logs" /\ pc = "start") =>
      \/ Len(fetches') = Len(fetches) + 1
      \/ fetches' = fetches /\ pc' = "raised"
      \/ Len(fetches) = LogAttempts /\ fetches' = fetches /\ pc' = "done"

\* C26: api_poll_logs ends after at most 18 fetches and fetches nothing
\* after a batch that is empty or has a line with \x04; every line of every
\* batch is printed once, in the order received; each fetch after the
\* first passes as since the datetime of the last line received so far.
C26_LogsPolled == [](C26_Logs) /\ [][C26_Step]_vars

\* two fetches: the last line of the first batch is older than its first
\* line, and the second batch has a line after the one with \x04, which is
\* printed too
C26_Witness ==
    /\ cmd = "logs" /\ pc = "done"
    /\ Len(fetches) = 2
    /\ Len(fetches[1].logs) = 2 /\ Len(fetches[2].logs) = 2
    /\ fetches[1].logs[1].datetime > fetches[1].logs[2].datetime
    /\ fetches[2].since = fetches[1].logs[2].datetime
    /\ fetches[2].logs[1].log = TextEOT
    /\ Len(shown) = 4
    /\ shown[4].style = "logging.level.warning"

----------------------------------------------------------------------------
(* C27 *)

\* the remote directories below the root
RemoteDirs == { P \in DOMAIN rfs : P # Root /\ IsDir(rfs, P) }
\* the scan neither appended the directory nor listed it
Pruned(P) ==
    /\ \A k \in 1..Len(ltp) : ltp[k].remote # P
    /\ \A k \in OpsNamed({"listdir"}) : ops[k].path # P
\* the scan appended the directory and listed it
Entered(P) ==
    /\ \E k \in 1..Len(ltp) : ltp[k].remote = P
    /\ \E k \in OpsNamed({"listdir"}) : ops[k].path = P

\* C27 as stated: a remote directory named cache, static or media is
\* pruned wherever it is in the tree.
C27_Original ==
    cmd \in GetCommands =>
      \A P \in RemoteDirs :
         BaseName(P) \in {NameCache, NameStatic, NameMedia} => Pruned(P)

\* what makes the scan prune a directory: its path relative to the remote
\* root is in the exclude list, or its name starts with a dot or is one of
\* EXCLUDE_DIRNAMES
PrunedByRule(P) ==
    \/ P \in e
    \/ StartsWithDot(BaseName(P))
    \/ BaseName(P) \in EXCLUDE_DIRNAMES

\* C27 as amended: the scan prunes, at any depth, the directories whose
\* name starts with a dot or is in EXCLUDE_DIRNAMES, and those whose path
\* relative to the remote root is in the exclude list. A directory named
\* cache, static or media is pruned only under that rule, so by the
\* default list of cr download only as cache, static or wp-content/cache
\* right under the root; any other one that the scan comes to is
\* appended and listed.
C27_PrunedByPathOrName ==
    cmd \in GetCommands =>
      /\ cmd = "download" => (pc = "start" \/ e # {})
      /\ \A P \in RemoteDirs :
           /\ PrunedByRule(P) => Pruned(P)
           /\ (/\ BaseName(P) \in {NameCache, NameStatic, NameMedia}
               /\ ~PrunedByRule(P)
               /\ Scanned(P)) => Entered(P)

\* cr download with the default exclude list of /www/{media/,
\* a/{cache/{b.txt}}}: media and a/cache were made locally and a/cache/b.txt
\* was downloaded
C27_Witness ==
    /\ cmd = "download" /\ pc = "done" /\ ~err
    /\ rfs = NestedTree
    /\ e = DefaultDownloadExclude
    /\ IsDir(lfs, <<NameMedia>>)
    /\ IsFile(lfs, <<NameA, NameCache, NameBTxt>>)

----------------------------------------------------------------------------
(* C28 *)

\* Server.put went through every item of the list and no primitive failed
PutCompleted ==
    /\ ~err
    /\ idx = Len(lp) + 1
    /\ advanced = Len(lp)
    /\ \A k \in 1..Len(ops) : ~Failed(ops[k])
\* Server.close has been called: nothing is held and what was opened has
\* been closed
Closed ==
    /\ ~client /\ ~sftp
    /\ \A k \in Made(conns, "handshake") :
         conns[k].res = "ok" =>
           \E j \in Made(conns, "close_client") : j > k /\ conns[j].obj = conns[k].obj
\* where Deploy.run is once the try block is left without an exception
AfterUpload == {"deploy", "poll", "logs", "done"}
\* where Deploy.run is up to the end of Server.put
Uploading == {"password", "connect", "open_sftp", "transfer", "put"}

C28_Order ==
    cmd = "deploy" =>
      /\ pc \in AfterUpload => (PutCompleted /\ Closed)
      /\ (polled # <<>> \/ api_task # "none" \/ poll_exc # "none") =>
           (pc \notin Uploading \cup {"start", "walk", "closing", "deploy"}
              /\ \A k \in 1..Len(ops) : ~Failed(ops[k]))
      /\ pc \in {"logs", "done"} => api_task = "completed"

C28_Step ==
    cmd = "deploy" =>
      \* the task is queued from the position after close only
      /\ (pc # "deploy" /\ pc' = "deploy") =>
           (pc = "closing" /\ ~err /\ idx = Len(lp) + 1 /\ ~client' /\ ~sftp')
      /\ (pc # "poll" /\ pc' = "poll") => pc = "deploy"
      /\ polled' # polled => pc = "poll"
      \* a failure of the password, connect, open_sftp or an item of put
      \* goes to close or straight out of run, and from there out of run
      /\ (pc \in Uploading /\ err') =>
           (pc' = (IF pc = "password" THEN "raised" ELSE "closing")
              /\ polled' = <<>>)
      /\ (pc = "closing" /\ err) => (pc' = "raised" /\ polled' = <<>>)
      /\ pc = "raised" => pc' = "raised"
      \* the logs are polled once the task polled is completed
      /\ (pc # "logs" /\ pc' = "logs") =>
           (pc = "poll" /\ api_task' = "completed"
              /\ polled'[Len(polled')] = "completed")

\* C28: cr deploy (with the upload) queues the deploy task only after
\* Server.put went through and Server.close was called; if the password,
\* connect, open_sftp or an item of put fails nothing is queued and nothing
\* is polled; the logs are polled only after the polled task is completed.
C28_QueueAfterUpload == [](C28_Order) /\ [][C28_Step]_vars

\* a deploy that uploaded a directory and a file, was queued, polled more
\* than once and got its logs
C28_Witness ==
    /\ cmd = "deploy" /\ pc = "done"
    /\ Len(lp) >= 2
    /\ OpsNamed({"put"}) # {} /\ OpsNamed({"mkdir"}) # {}
    /\ Len(polled) >= 2 /\ api_task = "completed"
    /\ Closed

----------------------------------------------------------------------------
(* C29 *)

\* put was aborted at an item whose resolved path is not under the root:
\* p.relative_to(r.resolve()) raised ValueError
RelativePathError ==
    /\ Aborted
    /\ idx \in 1..Len(lp)
    /\ Outside(Resolve(lp[idx]))

\* C29 as stated: every path that paths_to_deploy returns is a strict
\* descendant of the resolved root, whatever symbolic links the tree has,
\* and put never aborts with a relative-path error on such a list.
C29_Original ==
    /\ (WalkCmd \/ cmd \in {"walk", "files"}) =>
         \A k \in 1..Len(lp) : lp[k] # Root /\ ~Outside(lp[k])
    /\ WalkCmd => ~RelativePathError

----------------------------------------------------------------------------
(* C30 *)

\* the object of that kind made last has not been closed
Open(act) ==
    \A k \in Made(conns, IF act = "channel" THEN "close_sftp" ELSE "close_client") :
       conns[k].obj # LastObj(conns, act)

C30_Held ==
    /\ sftp => client
    /\ client => (LastObj(conns, "handshake") # 0 /\ Open("handshake"))
    /\ sftp => (LastObj(conns, "channel") # 0 /\ Open("channel"))
    /\ cmd = "session" =>
         \A k \in 1..Len(calls) :
            (calls[k].call \in {"connect", "open_sftp"} /\ calls[k].res = "ok")
              => calls[k].obj # 0

C30_Step ==
    /\ IsClose => (~client' /\ ~sftp')
    \* connect on a Server that holds no client
    /\ (IsCall("connect") /\ ~client /\ LastCall(calls').res = "ok") =>
          /\ LastCall(calls').obj = NewObj("handshake")
          /\ conns' = Append(conns, Conn("handshake", NewObj("handshake"), "ok"))
          /\ client'
    \* open_sftp, or the open_sftp of put and get, on a Server that holds
    \* no channel
    /\ (/\ IsCall("open_sftp") \/ IsCall("put") \/ IsCall("get")
        /\ ~sftp /\ sftp') =>
          /\ IsCall("open_sftp") =>
               LastCall(calls') = Call("open_sftp", "ok", NewObj("channel"))
          /\ conns'[Len(conns')] = Conn("channel", NewObj("channel"), "ok")
          /\ client'
          /\ ~client =>
               conns'[Len(conns') - 1] = Conn("handshake", NewObj("handshake"), "ok")

\* C30: a Server holds a channel only while it holds a client; close
\* leaves it with neither, and a connect or open_sftp (that of put and get
\* too) on a Server that holds none makes a new object, so that what a
\* Server holds is never an object that was closed.
C30_ChannelNeedsClient == [](C30_Held) /\ [][C30_Step]_vars

\* open_sftp, close, a put whose open_sftp failed to connect, and
\* open_sftp again: the second channel is on a new client
C30_Witness ==
    /\ cmd = "session"
    /\ Len(calls) = 4
    /\ calls[1] = Call("open_sftp", "ok", 1)
    /\ calls[2] = Call("close", "ok", 0)
    /\ calls[3] = Call("put", "error", 0)
    /\ calls[4] = Call("open_sftp", "ok", 2)
    /\ client /\ sftp
    /\ LastObj(conns, "handshake") > 1

====
